---------------------------- MODULE Spec2Model ----------------------------
(***************************************************************************)
(* Versioned-act registry of BhimLaw: the current-state store              *)
(* (legal_acts_database.py), the version-control ledger                    *)
(* (legal_acts_version_control.py) and the update service                  *)
(* (legal_acts_updater.py).                                                *)
(*                                                                         *)
(* Python values are represented as follows.  A dict is a function from    *)
(* its keys to its values (a record), a list is a sequence, None is the    *)
(* record None, a str is a string.  An int that the code only copies       *)
(* (year) is written as its decimal text.  A JSON text is a sequence of    *)
(* string tokens.  An ISO date text is a string; DateOrdinal gives its     *)
(* place in the calendar, which is also its place in SQLite's text order.  *)
(***************************************************************************)
EXTENDS Integers, Sequences, FiniteSets, TLC

VARIABLES
    legal_acts,        \* table legal_acts: act_id -> row            (database.py:70)
    update_log,        \* table update_log, in log_id order          (database.py:107)
    version_history,   \* table version_history, in rowid order      (version_control.py:64)
    today,             \* the process clock, as an ISO date
    last,              \* the last call: its name, its argument and what it returned
    old_sections,      \* first argument of _compare_sections
    new_sections,      \* second argument of _compare_sections
    differences,       \* result of _compare_sections
    similarity,        \* result of _calculate_similarity, <<min_len, max_len>>
    clock,             \* the process clock, seconds after midnight of today
    last_request_time, \* LegalActsUpdater.last_request_time      (updater.py:53)
    version_comparison,      \* table version_comparison          (version_control.py:122)
    amendment_notifications, \* table amendment_notifications     (version_control.py:103)
    connections,       \* the calls of add_or_update_act under way: where each
                       \* is, its locals and its open transaction
    change_records     \* table change_records                   (version_control.py:84)

vars == <<legal_acts, update_log, version_history, today, last,
          old_sections, new_sections, differences, similarity,
          clock, last_request_time, version_comparison, amendment_notifications,
          connections, change_records>>

registryVars == <<legal_acts, update_log>>
diffVars == <<old_sections, new_sections, differences, similarity>>
timeVars == <<clock, last_request_time>>
ledgerVars == <<version_comparison, amendment_notifications, change_records>>
sideVars == <<timeVars, ledgerVars, connections>>

-----------------------------------------------------------------------------
(* Bounds of the model *)

\* update_log rows the model lets the registry append
MaxLog == 2
\* version_history rows the model lets the ledger hold
MaxVersions == 3

-----------------------------------------------------------------------------
(* Python and SQLite values *)

None == [none |-> TRUE]

\* int(s) of the decimal texts the model uses; int() raises ValueError on any other text
Numeral ==
    [s \in {"0", "1", "2", "3", "4", "5", "6", "7", "8", "9", "10", "11", "12",
            "1950", "2005", "2024", "2025"} |->
        CASE s = "0" -> 0 [] s = "1" -> 1 [] s = "2" -> 2 [] s = "3" -> 3
          [] s = "4" -> 4 [] s = "5" -> 5 [] s = "6" -> 6 [] s = "7" -> 7
          [] s = "8" -> 8 [] s = "9" -> 9 [] s = "10" -> 10 [] s = "11" -> 11
          [] s = "12" -> 12 [] s = "1950" -> 1950 [] s = "2005" -> 2005
          [] s = "2024" -> 2024 [] s = "2025" -> 2025]

IsNumeric(s) == s \in DOMAIN Numeral

\* str(n), the inverse of int() on the decimal texts
Str(n) == CHOOSE s \in DOMAIN Numeral : Numeral[s] = n

\* version.split("."): the parts of the version texts the model uses
VersionParts ==
    [v \in {"2025.1", "2025.2", "2025.3", "2025.4", "2025.5", "2025.6",
            "2025", "v2.beta"} |->
        CASE v = "2025.1" -> <<"2025", "1">> [] v = "2025.2" -> <<"2025", "2">>
          [] v = "2025.3" -> <<"2025", "3">> [] v = "2025.4" -> <<"2025", "4">>
          [] v = "2025.5" -> <<"2025", "5">> [] v = "2025.6" -> <<"2025", "6">>
          [] v = "2025" -> <<"2025">> [] v = "v2.beta" -> <<"v2", "beta">>]

Split(v) == VersionParts[v]

\* f"{major}.{minor}"
Dotted(major, minor) ==
    CHOOSE v \in DOMAIN VersionParts : VersionParts[v] = <<major, minor>>

\* the place of an ISO date in the calendar (days from 2024-12-31)
DateOrdinal ==
    [d \in {"2025-01-10", "2025-01-15", "2025-02-01", "2025-02-09", "2025-02-10",
            "2025-04-14", "2025-04-15", "2025-04-16"} |->
        CASE d = "2025-01-10" -> 10 [] d = "2025-01-15" -> 15
          [] d = "2025-02-01" -> 32 [] d = "2025-02-09" -> 40
          [] d = "2025-02-10" -> 41 [] d = "2025-04-14" -> 104
          [] d = "2025-04-15" -> 105 [] d = "2025-04-16" -> 106]

\* the dates given to the ledger as release dates
Dates == {"2025-01-10", "2025-01-15", "2025-02-01"}

\* str(datetime.now().month)
MonthOf(d) ==
    IF DateOrdinal[d] <= 31 THEN "1"
    ELSE IF DateOrdinal[d] <= 59 THEN "2"
    ELSE IF DateOrdinal[d] <= 90 THEN "3" ELSE "4"

-----------------------------------------------------------------------------
(* JSON *)

SectionIds == {"Section 6", "Section 7", "Section 20"}
Texts == {"A", "B"}

\* the order in which a dict of sections is iterated
SectionOrder == <<"Section 6", "Section 7", "Section 20">>

\* the dicts of sections the model uses: Dict[str, str]
SectionMaps == UNION {[D -> Texts] : D \in SUBSET SectionIds}

\* a plausible slip: only the first item of the dict is written
DumpItems_FirstOnly(d, keys) ==
    IF keys = <<>> THEN <<>>
    ELSE IF Head(keys) \in DOMAIN d THEN <<Head(keys), d[Head(keys)]>>
    ELSE <<>>

RECURSIVE DumpItems(_, _)
DumpItems(d, keys) ==
    IF keys = <<>> THEN <<>>
    ELSE IF Head(keys) \in DOMAIN d
         THEN <<Head(keys), d[Head(keys)]>> \o DumpItems(d, Tail(keys))
         ELSE DumpItems(d, Tail(keys))

\* json.dumps(sections): "null" for None, else the items between braces
DumpSections(s) ==
    IF s = None THEN <<"null">>
    ELSE <<"{">> \o DumpItems(s, SectionOrder) \o <<"}">>

\* json.loads(text) of a sections column
LoadSections(t) ==
    IF t = <<"null">> THEN None
    ELSE LET n == (Len(t) - 2) \div 2
         IN  [k \in {t[2 * i] : i \in 1..n} |->
                 t[(CHOOSE i \in 1..n : t[2 * i] = k) * 2 + 1]]

\* json.dumps of one amendment dict: date, description, notification and,
\* when present, the list sections_affected
DumpAmendment(a) ==
    <<"{", a.date, a.description, a.notification>>
    \o (IF "sections_affected" \in DOMAIN a
        THEN <<"[">> \o a.sections_affected \o <<"]">>
        ELSE <<>>)
    \o <<"}">>

RECURSIVE DumpAmendments(_)
DumpAmendments(l) ==
    IF l = <<>> THEN <<>>
    ELSE DumpAmendment(Head(l)) \o DumpAmendments(Tail(l))

\* the index of the first "}" of a JSON text
RECURSIVE CloseAt(_, _)
CloseAt(t, i) == IF t[i] = "}" THEN i ELSE CloseAt(t, i + 1)

LoadAmendment(t) ==
    LET base == [date |-> t[2], description |-> t[3], notification |-> t[4]]
    IN  IF Len(t) = 5 THEN base
        ELSE base @@ [sections_affected |-> SubSeq(t, 6, Len(t) - 2)]

\* json.loads(text) of an amendments column
RECURSIVE LoadAmendments(_)
LoadAmendments(t) ==
    IF t = <<>> THEN <<>>
    ELSE LET c == CloseAt(t, 1)
         IN  <<LoadAmendment(SubSeq(t, 1, c))>>
             \o LoadAmendments(SubSeq(t, c + 1, Len(t)))

-----------------------------------------------------------------------------
(* LegalActsDatabase: legal_acts_database.py *)

\* The keys add_or_update_act reads for the columns it writes.  source_url,
\* notification_number and ministry are read and copied exactly as category
\* is, and are left out of the model's dicts.
ColumnKeys == {"act_id", "name", "year", "sections", "amendments",
               "last_updated", "category", "status", "version"}

\* the keys of an act dict in sorted order (sort_keys=True)
SortedKeys == <<"act_id", "amendments", "category", "checksum", "last_updated",
                "name", "sections", "status", "version", "year">>

RECURSIVE SortedItems(_, _)
SortedItems(d, keys) ==
    IF keys = <<>> THEN <<>>
    ELSE IF Head(keys) \in DOMAIN d
         THEN <<[key |-> Head(keys), value |-> d[Head(keys)]]>>
              \o SortedItems(d, Tail(keys))
         ELSE SortedItems(d, Tail(keys))

\* hashlib.md5(content).hexdigest().  The digest is kept as the digested
\* text: equal texts give equal digests, and no collision is modelled.
md5(content) == [md5 |-> content]

_generate_checksum(act_data) == md5(SortedItems(act_data, SortedKeys))

\* the row written for act_data (the INSERT and the UPDATE bind the same values)
RowOf(act_data, checksum) ==
    [act_id |-> act_data.act_id, name |-> act_data.name, year |-> act_data.year,
     sections |-> DumpSections(act_data.sections),
     amendments |-> DumpAmendments(act_data.amendments),
     last_updated |-> act_data.last_updated, category |-> act_data.category,
     status |-> act_data.status, version |-> act_data.version,
     checksum |-> checksum]

\* a plausible slip: the new version is logged as the old one
LogRow_OldIsNew(act_data, existing_version) ==
    [act_id |-> act_data.act_id, update_type |-> "update",
     old_version |-> act_data.version, new_version |-> act_data.version,
     update_source |-> "system_update"]

LogRow(act_data, existing_version) ==
    [act_id |-> act_data.act_id, update_type |-> "update",
     old_version |-> existing_version, new_version |-> act_data.version,
     update_source |-> "system_update"]

\* a plausible slip: an existing act is updated without comparing checksums
add_or_update_act_NoCompare(acts, log, act_data) ==
    LET unchanged == [acts |-> acts, log |-> log, val |-> FALSE]
        checksum == _generate_checksum(act_data)
    IN  IF ~(ColumnKeys \subseteq DOMAIN act_data) THEN unchanged
        ELSE IF act_data.act_id \in DOMAIN acts
        THEN [acts |-> [acts EXCEPT ![act_data.act_id] = RowOf(act_data, checksum)],
              log |-> Append(log, [act_id |-> act_data.act_id,
                                   update_type |-> "update",
                                   old_version |-> acts[act_data.act_id].version,
                                   new_version |-> act_data.version,
                                   update_source |-> "system_update"]),
              val |-> TRUE]
        ELSE [acts |-> acts @@ (act_data.act_id :> RowOf(act_data, checksum)),
              log |-> log,
              val |-> TRUE]

\* a plausible slip: the UPDATE has no WHERE clause, every row gets the
\* columns of the dict
add_or_update_act_NoWhere(acts, log, act_data) ==
    LET unchanged == [acts |-> acts, log |-> log, val |-> FALSE]
        checksum == _generate_checksum(act_data)
    IN  IF "act_id" \notin DOMAIN act_data THEN unchanged
        ELSE IF act_data.act_id \in DOMAIN acts
        THEN LET existing == acts[act_data.act_id]
             IN  IF "name" \notin DOMAIN act_data THEN unchanged
                 ELSE IF existing.checksum = checksum THEN unchanged
                 ELSE IF ~(ColumnKeys \subseteq DOMAIN act_data) THEN unchanged
                 ELSE [acts |-> [id \in DOMAIN acts |->
                                    [RowOf(act_data, checksum) EXCEPT !.act_id = id]],
                       log |-> Append(log, LogRow(act_data, existing.version)),
                       val |-> TRUE]
        ELSE IF ~(ColumnKeys \subseteq DOMAIN act_data) THEN unchanged
        ELSE [acts |-> acts @@ (act_data.act_id :> RowOf(act_data, checksum)),
              log |-> log,
              val |-> TRUE]

\* a plausible slip: the SELECT of the existing row takes active rows only,
\* so that an act whose row is not active is inserted, and the INSERT of its
\* act_id, the primary key, raises
add_or_update_act_ActiveOnly(acts, log, act_data) ==
    LET unchanged == [acts |-> acts, log |-> log, val |-> FALSE]
        checksum == _generate_checksum(act_data)
    IN  IF "act_id" \notin DOMAIN act_data THEN unchanged
        ELSE IF act_data.act_id \in DOMAIN acts
                /\ acts[act_data.act_id].status = "active"
        THEN LET existing == acts[act_data.act_id]
             IN  IF "name" \notin DOMAIN act_data THEN unchanged
                 ELSE IF existing.checksum = checksum THEN unchanged
                 ELSE IF ~(ColumnKeys \subseteq DOMAIN act_data) THEN unchanged
                 ELSE [acts |-> [acts EXCEPT ![act_data.act_id] =
                                     RowOf(act_data, checksum)],
                       log |-> Append(log, LogRow(act_data, existing.version)),
                       val |-> TRUE]
        ELSE IF ~(ColumnKeys \subseteq DOMAIN act_data) THEN unchanged
        ELSE IF act_data.act_id \in DOMAIN acts THEN unchanged
        ELSE [acts |-> acts @@ (act_data.act_id :> RowOf(act_data, checksum)),
              log |-> log,
              val |-> TRUE]

\* add_or_update_act on the store (acts, log): the store it leaves and the
\* value it returns.  Every exception (a KeyError for a key the dict lacks)
\* is caught, nothing is committed and False is returned.
add_or_update_act(acts, log, act_data) ==
    LET unchanged == [acts |-> acts, log |-> log, val |-> FALSE]
        checksum == _generate_checksum(act_data)
    IN  IF "act_id" \notin DOMAIN act_data THEN unchanged
        ELSE IF act_data.act_id \in DOMAIN acts
        THEN LET existing == acts[act_data.act_id]
             IN  IF "name" \notin DOMAIN act_data THEN unchanged
                 ELSE IF existing.checksum = checksum THEN unchanged
                 ELSE IF ~(ColumnKeys \subseteq DOMAIN act_data) THEN unchanged
                 ELSE [acts |-> [acts EXCEPT ![act_data.act_id] =
                                     RowOf(act_data, checksum)],
                       log |-> Append(log, LogRow(act_data, existing.version)),
                       val |-> TRUE]
        ELSE IF ~(ColumnKeys \subseteq DOMAIN act_data) THEN unchanged
        ELSE [acts |-> acts @@ (act_data.act_id :> RowOf(act_data, checksum)),
              log |-> log,
              val |-> TRUE]

\* the dict get_act builds from a row
ActOfRow(row) ==
    [act_id |-> row.act_id, name |-> row.name, year |-> row.year,
     sections |-> LoadSections(row.sections),
     amendments |-> LoadAmendments(row.amendments),
     last_updated |-> row.last_updated, category |-> row.category,
     status |-> row.status, version |-> row.version, checksum |-> row.checksum]

\* get_act: SELECT ... WHERE act_id = ? AND status = 'active'
get_act(acts, act_id) ==
    IF act_id \in DOMAIN acts /\ acts[act_id].status = "active"
    THEN ActOfRow(acts[act_id])
    ELSE None

-----------------------------------------------------------------------------
(* Seed data and the act dicts callers pass *)

S6A == ("Section 6" :> "A")
S6B == ("Section 6" :> "B")
S6A20A == ("Section 6" :> "A") @@ ("Section 20" :> "A")

SeedAmendment ==
    [date |-> "2025-01-10", description |-> "Enhanced digital filing provisions",
     notification |-> "RTI-2025-01"]

RtiSeed ==
    [act_id |-> "rti_act_2005", name |-> "Right to Information Act",
     year |-> "2005", sections |-> S6A, amendments |-> <<SeedAmendment>>,
     last_updated |-> "2025-01-10", category |-> "Transparency Law",
     status |-> "active", version |-> "2025.1"]

ConstitutionSeed ==
    [act_id |-> "constitution_india_1950", name |-> "Constitution of India",
     year |-> "1950", sections |-> S6A, amendments |-> <<>>,
     last_updated |-> "2025-01-15", category |-> "Constitutional Law",
     status |-> "active", version |-> "2025.1"]

\* _get_initial_acts_data, cut to two of its five acts and to the model's sections
_get_initial_acts_data == <<RtiSeed, ConstitutionSeed>>

\* a plausible slip: a seed act that is stored is left as it is
RECURSIVE load_initial_acts_SkipStored(_, _, _)
load_initial_acts_SkipStored(acts, log, initial_acts) ==
    IF initial_acts = <<>> THEN [acts |-> acts, log |-> log]
    ELSE IF Head(initial_acts).act_id \in DOMAIN acts
    THEN load_initial_acts_SkipStored(acts, log, Tail(initial_acts))
    ELSE LET r == add_or_update_act(acts, log, Head(initial_acts))
         IN  load_initial_acts_SkipStored(r.acts, r.log, Tail(initial_acts))

\* load_initial_acts: add_or_update_act on each seed act in turn
RECURSIVE load_initial_acts(_, _, _)
load_initial_acts(acts, log, initial_acts) ==
    IF initial_acts = <<>> THEN [acts |-> acts, log |-> log]
    ELSE LET r == add_or_update_act(acts, log, Head(initial_acts))
         IN  load_initial_acts(r.acts, r.log, Tail(initial_acts))

\* The act dicts a caller of add_or_update_act passes: the RTI seed, the seed
\* with one field changed, a next version with one section modified, a new
\* act, and dicts that break the contract of upsert.
Base == RtiSeed
NewAct == [Base EXCEPT !.act_id = "shops_establishments_act",
                       !.name = "Shops and Establishments Act",
                       !.category = "Trade Law", !.amendments = <<>>]

Payloads ==
    {Base, NewAct}
    \cup {[Base EXCEPT !.sections = s] : s \in {S6B, S6A20A}}
    \cup {[Base EXCEPT !.version = "2025.2", !.sections = S6B]}
    \cup {[Base EXCEPT !.status = st] : st \in {"repealed", "amended", "draft"}}
    \cup {[Base EXCEPT !.version = "2025"]}
    \cup {[NewAct EXCEPT !.status = "repealed"]}
    \* the three violations of the contract, and a dict that lacks a key
    \cup {[NewAct EXCEPT !.act_id = ""], [NewAct EXCEPT !.sections = None],
          [NewAct EXCEPT !.year = "MMV"]}
    \cup {[k \in ColumnKeys \ {"category"} |-> NewAct[k]]}

-----------------------------------------------------------------------------
(* LegalActsUpdater: legal_acts_updater.py *)

\* the amendment dicts passed to _apply_gazette_amendment: the first entry of
\* _get_simulated_gazette_updates, and one for an act that may have no row
GazetteAmendments ==
    {[act_id |-> id, amendment_date |-> "2025-01-15",
      notification_number |-> "RTI-2025-01",
      description |-> "Enhanced digital filing provisions and penalty updates",
      sections_affected |-> <<"Section 6", "Section 20">>] :
        id \in {"rti_act_2005", "shops_establishments_act"}}

\* a plausible slip: the second part of the version is taken as it is
new_patch_NoIncrement(version_parts) ==
    IF Len(version_parts) > 1 THEN Numeral[version_parts[2]] ELSE 1

\* new_patch = int(version_parts[1]) + 1 if len(version_parts) > 1 else 1
new_patch(version_parts) ==
    IF Len(version_parts) > 1 THEN Numeral[version_parts[2]] + 1 ELSE 1

\* the act dict _apply_gazette_amendment passes to add_or_update_act, or None
\* when it returns False before that (no visible act, or int() raises)
GazetteActData(acts, amendment) ==
    LET act == get_act(acts, amendment.act_id)
        version_parts == IF act = None THEN <<>> ELSE Split(act.version)
    IN  IF act = None THEN None
        ELSE IF Len(version_parts) > 1 /\ ~IsNumeric(version_parts[2]) THEN None
        ELSE [act EXCEPT
                !.amendments = Append(@,
                    [date |-> amendment.amendment_date,
                     description |-> amendment.description,
                     notification |-> amendment.notification_number,
                     sections_affected |-> amendment.sections_affected]),
                !.last_updated = amendment.amendment_date,
                !.version = Dotted(version_parts[1], Str(new_patch(version_parts)))]

_apply_gazette_amendment(acts, log, amendment) ==
    LET act == GazetteActData(acts, amendment)
    IN  IF act = None THEN [acts |-> acts, log |-> log, val |-> FALSE]
        ELSE add_or_update_act(acts, log, act)

\* act_id.replace('_', '-') and act_slug.replace('-', '_') on the model's ids
SlugOf ==
    [id \in {"rti_act_2005", "shops_establishments_act",
             "right_to_information_act_2005", "constitution_india_1950"} |->
        CASE id = "rti_act_2005" -> "rti-act-2005"
          [] id = "shops_establishments_act" -> "shops-establishments-act"
          [] id = "right_to_information_act_2005" -> "right-to-information-act-2005"
          [] id = "constitution_india_1950" -> "constitution-india-1950"]

IdOfSlug(act_slug) == CHOOSE id \in DOMAIN SlugOf : SlugOf[id] = act_slug

\* what the title of a fetched page gives: the year the regex finds in it
\* ("" when it finds none) and the category _determine_category returns
TitleInfo ==
    [t \in {"The Right to Information Act, 2005", "Shops and Establishments Act"} |->
        IF t = "The Right to Information Act, 2005"
        THEN [year_match |-> "2005", category |-> "Transparency Law"]
        ELSE [year_match |-> "", category |-> "Trade Law"]]

_determine_category(title) == TitleInfo[title].category

\* What session.get and BeautifulSoup give for a slug: no page (an exception
\* or a status other than 200), a page with no h1 and no title element, or a
\* page with its title and the sections its headings yield.
Responses ==
    {[page |-> FALSE, has_title |-> FALSE], [page |-> TRUE, has_title |-> FALSE]}
    \cup {[page |-> TRUE, has_title |-> TRUE,
           title |-> "The Right to Information Act, 2005", sections |-> s] :
              s \in {S6A, S6B}}
    \cup {[page |-> TRUE, has_title |-> TRUE,
           title |-> "Shops and Establishments Act", sections |-> <<>>]}

\* a plausible slip: no year is put in when the title holds none
_parse_india_code_act_NoDefaultYear(soup, act_slug, now) ==
    IF ~soup.has_title THEN None
    ELSE [act_id |-> IdOfSlug(act_slug),
          name |-> soup.title,
          year |-> TitleInfo[soup.title].year_match,
          sections |-> soup.sections,
          amendments |-> <<>>,
          last_updated |-> now,
          category |-> _determine_category(soup.title),
          status |-> "active",
          version |-> Dotted("2025", MonthOf(now))]

_parse_india_code_act(soup, act_slug, now) ==
    IF ~soup.has_title THEN None
    ELSE [act_id |-> IdOfSlug(act_slug),
          name |-> soup.title,
          year |-> IF TitleInfo[soup.title].year_match = "" THEN "2025"
                   ELSE TitleInfo[soup.title].year_match,
          sections |-> soup.sections,
          amendments |-> <<>>,
          last_updated |-> now,
          category |-> _determine_category(soup.title),
          status |-> "active",
          version |-> Dotted("2025", MonthOf(now))]

_fetch_act_from_india_code(act_slug, response, now) ==
    IF ~response.page THEN None
    ELSE _parse_india_code_act(response, act_slug, now)

\* _fetch_and_update_act: the store it leaves and the "success" it reports
_fetch_and_update_act(acts, log, act_id, response, now) ==
    LET act_data == _fetch_act_from_india_code(SlugOf[act_id], response, now)
    IN  IF act_data = None THEN [acts |-> acts, log |-> log, val |-> FALSE]
        ELSE add_or_update_act(acts, log, act_data)

-----------------------------------------------------------------------------
(* The registry and the update service as a state machine *)

\* the connections of the calls of add_or_update_act that run side by side
Connections == {"c1", "c2"}

\* no call under way on the connection
Closed == [pc |-> "closed"]

InitialStore == load_initial_acts(<<>>, <<>>, _get_initial_acts_data)

Init ==
    /\ legal_acts = InitialStore.acts
    /\ update_log = InitialStore.log
    /\ version_history = <<>>
    /\ today = "2025-01-15"
    /\ last = [op |-> "__init__"]
    /\ old_sections = <<>>
    /\ new_sections = <<>>
    /\ differences = <<>>
    /\ similarity = <<0, 0>>
    /\ clock = 0
    /\ last_request_time = 0
    /\ version_comparison = <<>>
    /\ amendment_notifications = <<>>
    /\ connections = [c \in Connections |-> Closed]
    /\ change_records = <<>>

\* a call of a writer: the store it leaves, within the model's bound on the log
Commit(r) ==
    /\ Len(r.log) <= MaxLog
    /\ legal_acts' = r.acts
    /\ update_log' = r.log

AddOrUpdateAct(act_data) ==
    LET r == add_or_update_act(legal_acts, update_log, act_data)
    IN  /\ Commit(r)
        /\ last' = [op |-> "add_or_update_act", act_data |-> act_data,
                    changed |-> r.val]
        /\ UNCHANGED <<version_history, today, diffVars, sideVars>>

GetAct(act_id) ==
    /\ last' = [op |-> "get_act", act_id |-> act_id,
                act |-> get_act(legal_acts, act_id)]
    /\ UNCHANGED <<registryVars, version_history, today, diffVars, sideVars>>

ApplyGazetteAmendment(amendment) ==
    LET r == _apply_gazette_amendment(legal_acts, update_log, amendment)
    IN  /\ Commit(r)
        /\ last' = [op |-> "_apply_gazette_amendment", amendment |-> amendment,
                    applied |-> r.val]
        /\ UNCHANGED <<version_history, today, diffVars, sideVars>>

FetchAndUpdateAct(act_id, response) ==
    LET r == _fetch_and_update_act(legal_acts, update_log, act_id, response, today)
    IN  /\ Commit(r)
        /\ last' = [op |-> "_fetch_and_update_act", target |-> act_id,
                    success |-> r.val]
        /\ UNCHANGED <<version_history, today, diffVars, sideVars>>

\* the acts _fetch_and_update_act is called for
FetchedActs == {"rti_act_2005", "shops_establishments_act"}

ActIds == {p.act_id : p \in {q \in Payloads : "act_id" \in DOMAIN q}}

Next ==
    \/ \E act_data \in Payloads : AddOrUpdateAct(act_data)
    \/ \E act_id \in ActIds : GetAct(act_id)
    \/ \E amendment \in GazetteAmendments : ApplyGazetteAmendment(amendment)
    \/ \E act_id \in FetchedActs, response \in Responses :
           FetchAndUpdateAct(act_id, response)

\* The registry and the update service within one day of the clock.
Spec == Init /\ [][Next]_vars

-----------------------------------------------------------------------------
(* LegalActsVersionControl: legal_acts_version_control.py *)

\* json.dumps and json.loads of a list of section ids
DumpList(l) == <<"[">> \o l \o <<"]">>
LoadList(t) == SubSeq(t, 2, Len(t) - 1)

\* the keys create_version reads with [] and not with get()
VersionInfoKeys == {"version", "release_date", "amendment_type", "checksum"}

\* f"{act_id}_{version}_{now:%Y%m%d}", kept as its three parts
VersionId(act_id, version, now) == <<act_id, version, now>>

\* a plausible slip: INSERT OR REPLACE, a version_id that is in the table
\* gets the new row
create_version_Replace(vh, act_id, version_info, now) ==
    IF ~(VersionInfoKeys \subseteq DOMAIN version_info)
    THEN [vh |-> vh, val |-> <<>>]
    ELSE LET version_id == VersionId(act_id, version_info.version, now)
             row == [version_id |-> version_id, act_id |-> act_id,
                     version |-> version_info.version,
                     release_date |-> version_info.release_date,
                     amendment_type |-> version_info.amendment_type,
                     sections_affected |->
                         DumpList(IF "sections_affected" \in DOMAIN version_info
                                  THEN version_info.sections_affected ELSE <<>>),
                     checksum |-> version_info.checksum]
         IN  IF \E i \in 1..Len(vh) : vh[i].version_id = version_id
             THEN [vh |-> [i \in 1..Len(vh) |->
                              IF vh[i].version_id = version_id THEN row ELSE vh[i]],
                   val |-> version_id]
             ELSE [vh |-> Append(vh, row), val |-> version_id]

\* create_version on the table: the table it leaves and the version_id it
\* returns, "" (here <<>>) when a key is missing or the version_id, the
\* primary key, is already in the table.  notification_number,
\* gazette_reference, ministry and summary are optional and copied as
\* they are, and are left out.
create_version(vh, act_id, version_info, now) ==
    IF ~(VersionInfoKeys \subseteq DOMAIN version_info)
    THEN [vh |-> vh, val |-> <<>>]
    ELSE LET version_id == VersionId(act_id, version_info.version, now)
         IN  IF \E i \in 1..Len(vh) : vh[i].version_id = version_id
             THEN [vh |-> vh, val |-> <<>>]
             ELSE [vh |-> Append(vh,
                      [version_id |-> version_id, act_id |-> act_id,
                       version |-> version_info.version,
                       release_date |-> version_info.release_date,
                       amendment_type |-> version_info.amendment_type,
                       sections_affected |->
                           DumpList(IF "sections_affected" \in DOMAIN version_info
                                    THEN version_info.sections_affected ELSE <<>>),
                       checksum |-> version_info.checksum]),
                   val |-> version_id]

\* a plausible slip: the query has no ORDER BY and gives the rows in rowid order
SelectVersionHistory_NoOrder(vh, act_id) ==
    LET match == {i \in 1..Len(vh) : vh[i].act_id = act_id}
        n == Cardinality(match)
    IN  {f \in [1..n -> match] : \A i \in 1..(n - 1) : f[i] < f[i + 1]}

\* SELECT ... FROM version_history WHERE act_id = ? ORDER BY release_date DESC:
\* the rows of the act, as row numbers, in every order SQLite may give them
\* (rows of one release_date come in any order)
SelectVersionHistory(vh, act_id) ==
    LET match == {i \in 1..Len(vh) : vh[i].act_id = act_id}
        n == Cardinality(match)
    IN  {f \in [1..n -> match] :
            /\ \A i, j \in 1..n : i # j => f[i] # f[j]
            /\ \A i \in 1..(n - 1) :
                  DateOrdinal[vh[f[i]].release_date]
                      >= DateOrdinal[vh[f[i + 1]].release_date]}

\* the dict get_version_history builds from a row
VersionOfRow(row) ==
    [version_id |-> row.version_id, version |-> row.version,
     release_date |-> row.release_date, amendment_type |-> row.amendment_type,
     sections_affected |-> LoadList(row.sections_affected),
     checksum |-> row.checksum]

get_version_history(vh, rows) == [i \in 1..Len(rows) |-> VersionOfRow(vh[rows[i]])]

\* _compare_sections(old_sections, new_sections).  A Python dict is iterated
\* in the order its keys were inserted: new_keys and old_keys give that order
\* for the two dicts.
RECURSIVE NewSectionsLoop(_, _, _)
NewSectionsLoop(old, new, keys) ==
    IF keys = <<>> THEN <<>>
    ELSE LET section == Head(keys)
             found ==
                 IF section \notin DOMAIN new THEN <<>>
                 ELSE IF section \in DOMAIN old
                 THEN IF old[section] # new[section]
                      THEN <<[type |-> "modified", section |-> section,
                              old_content |-> old[section],
                              new_content |-> new[section]]>>
                      ELSE <<>>
                 ELSE <<[type |-> "added", section |-> section,
                         new_content |-> new[section]]>>
         IN  found \o NewSectionsLoop(old, new, Tail(keys))

RECURSIVE OldSectionsLoop(_, _, _)
OldSectionsLoop(old, new, keys) ==
    IF keys = <<>> THEN <<>>
    ELSE LET section == Head(keys)
             found ==
                 IF section \in DOMAIN old /\ section \notin DOMAIN new
                 THEN <<[type |-> "deleted", section |-> section,
                         old_content |-> old[section]]>>
                 ELSE <<>>
         IN  found \o OldSectionsLoop(old, new, Tail(keys))

\* a plausible slip: the loop over the old sections is left out
_compare_sections_NoDeleted(old, new, new_keys, old_keys) ==
    NewSectionsLoop(old, new, new_keys)

_compare_sections(old, new, new_keys, old_keys) ==
    NewSectionsLoop(old, new, new_keys) \o OldSectionsLoop(old, new, old_keys)

\* len(s) of the section ids and texts of the model
StrLen ==
    [s \in SectionIds \cup Texts |->
        CASE s = "Section 6" -> 9 [] s = "Section 7" -> 9
          [] s = "Section 20" -> 10 [] s = "A" -> 1 [] s = "B" -> 1]

\* len(json.dumps(sections, sort_keys=True)): the braces, each item as
\* "key": "value" and ", " between two items
RECURSIVE ItemsLen(_, _)
ItemsLen(d, keys) ==
    IF keys = {} THEN 0
    ELSE LET k == CHOOSE x \in keys : TRUE
         IN  StrLen[k] + StrLen[d[k]] + 6 + ItemsLen(d, keys \ {k})

JsonLen(d) ==
    2 + ItemsLen(d, DOMAIN d)
      + (IF DOMAIN d = {} THEN 0 ELSE 2 * (Cardinality(DOMAIN d) - 1))

\* _calculate_similarity on the two sections dicts: min_len / max_len, kept as
\* the pair <<min_len, max_len>>; 1.0 is <<1, 1>> and 0.0 is <<0, 1>>
_calculate_similarity(old, new) ==
    LET old_len == JsonLen(old)
        new_len == JsonLen(new)
        max_len == IF old_len >= new_len THEN old_len ELSE new_len
        min_len == IF old_len >= new_len THEN new_len ELSE old_len
    IN  IF old_len = 0 /\ new_len = 0 THEN <<1, 1>>
        ELSE IF max_len > 0 THEN <<min_len, max_len>>
        ELSE <<0, 1>>

-----------------------------------------------------------------------------
(* The version-control ledger as a state machine *)

VersionInfos ==
    {[version |-> v, release_date |-> d, amendment_type |-> "amendment",
      sections_affected |-> <<"Section 6">>, checksum |-> "c"] :
        v \in {"2025.1", "2025.2"}, d \in Dates}
    \cup {[version |-> "2025.1", amendment_type |-> "amendment", checksum |-> "c"]}

LedgerActs == {"rti_act_2005", "constitution_india_1950"}

CreateVersion(act_id, version_info) ==
    LET r == create_version(version_history, act_id, version_info, today)
    IN  /\ Len(r.vh) <= MaxVersions
        /\ version_history' = r.vh
        /\ last' = [op |-> "create_version", version_of |-> act_id,
                    version_info |-> version_info, version_id |-> r.val]
        /\ UNCHANGED <<registryVars, today, diffVars, sideVars>>

GetVersionHistory(act_id) ==
    /\ \E rows \in SelectVersionHistory(version_history, act_id) :
          last' = [op |-> "get_version_history", history_of |-> act_id,
                   versions |-> get_version_history(version_history, rows)]
    /\ UNCHANGED <<registryVars, version_history, today, diffVars, sideVars>>

\* the clock moves on to another day
Tick ==
    /\ today = "2025-01-15"
    /\ today' = "2025-02-01"
    /\ UNCHANGED <<registryVars, version_history, last, diffVars, sideVars>>

NextVC ==
    \/ \E act_id \in LedgerActs, version_info \in VersionInfos :
           CreateVersion(act_id, version_info)
    \/ \E act_id \in LedgerActs : GetVersionHistory(act_id)
    \/ Tick

SpecVC == Init /\ [][NextVC]_vars

-----------------------------------------------------------------------------
(* _compare_sections and _calculate_similarity on every pair of dicts *)

RECURSIVE Orders(_)
Orders(S) ==
    IF S = {} THEN {<<>>}
    ELSE UNION {{<<x>> \o o : o \in Orders(S \ {x})} : x \in S}

InitDiff ==
    /\ Init!1 /\ Init!2 /\ Init!3 /\ Init!4 /\ Init!5
    /\ Init!10 /\ Init!11 /\ Init!12 /\ Init!13 /\ Init!14 /\ Init!15
    /\ old_sections \in SectionMaps
    /\ new_sections \in SectionMaps
    /\ differences = <<>>
    /\ similarity = <<0, 0>>

CompareSections(new_keys, old_keys) ==
    /\ differences' = _compare_sections(old_sections, new_sections,
                                        new_keys, old_keys)
    /\ similarity' = _calculate_similarity(old_sections, new_sections)
    /\ last' = [op |-> "_compare_sections"]
    /\ UNCHANGED <<registryVars, version_history, today, old_sections, new_sections,
                   sideVars>>

NextDiff ==
    \E new_keys \in Orders(SectionIds), old_keys \in Orders(SectionIds) :
        CompareSections(new_keys, old_keys)

SpecDiff == InitDiff /\ [][NextDiff]_vars

-----------------------------------------------------------------------------
(* compare_versions and the version_comparison table *)

\* version_comparison rows the model lets the ledger hold
MaxComparisons == 2
\* seconds the model lets the clock run on within a day
MaxClock == 1

\* json.dumps(comparison['differences']): each entry as an object of its values
RECURSIVE DumpDifferences(_)
DumpDifferences(d) ==
    IF d = <<>> THEN <<>>
    ELSE LET e == Head(d)
             contents ==
                 CASE e.type = "modified" -> <<e.old_content, e.new_content>>
                   [] e.type = "added" -> <<e.new_content>>
                   [] e.type = "deleted" -> <<e.old_content>>
         IN  <<"{", e.type, e.section>> \o contents \o <<"}">>
                 \o DumpDifferences(Tail(d))

\* len([d for d in differences if d["type"] == type])
CountType(d, type) == Cardinality({i \in 1..Len(d) : d[i].type = type})

\* _generate_comparison_summary: the counts its text is made of, in the order
\* added, modified, deleted; <<0, 0, 0>> is "No differences found between
\* versions"
_generate_comparison_summary(d) ==
    <<CountType(d, "added"), CountType(d, "modified"), CountType(d, "deleted")>>

\* _get_act_version: the current act, whatever the version asked for
_get_act_version(acts, act_id, version) == get_act(acts, act_id)

\* _store_comparison: the table it leaves.  comparison_id, the primary key,
\* is f"CMP_{act_id}_{now:%Y%m%d_%H%M%S}"; the INSERT of a key that is in
\* the table raises, which is logged and nothing else.
_store_comparison(cmp, comparison, date, seconds) ==
    LET comparison_id == <<"CMP", comparison.act_id, date, seconds>>
    IN  IF \E i \in 1..Len(cmp) : cmp[i].comparison_id = comparison_id
        THEN cmp
        ELSE Append(cmp,
                 [comparison_id |-> comparison_id,
                  act_id |-> comparison.act_id,
                  old_version |-> comparison.old_version,
                  new_version |-> comparison.new_version,
                  comparison_date |-> comparison.comparison_date,
                  differences |-> DumpDifferences(comparison.differences),
                  similarity_score |-> comparison.similarity_score])

\* compare_versions: the table it leaves and the dict it returns.  The
\* sections of both acts come from json.loads of one row, so both dicts are
\* iterated in the order of that text; sections that are None make
\* _compare_sections raise, which compare_versions turns into an error dict.
compare_versions(acts, cmp, act_id, old_version, new_version, date, seconds) ==
    LET old_act == _get_act_version(acts, act_id, old_version)
        new_act == _get_act_version(acts, act_id, new_version)
    IN  IF old_act = None \/ new_act = None
        THEN [cmp |-> cmp, val |-> [error |-> "One or both versions not found"]]
        ELSE IF old_act.sections = None \/ new_act.sections = None
        THEN [cmp |-> cmp, val |-> [error |-> "AttributeError"]]
        ELSE LET comparison_result ==
                     [act_id |-> act_id,
                      old_version |-> old_version,
                      new_version |-> new_version,
                      comparison_date |-> <<date, seconds>>,
                      differences |->
                          _compare_sections(old_act.sections, new_act.sections,
                                            SectionOrder, SectionOrder),
                      similarity_score |->
                          _calculate_similarity(old_act.sections, new_act.sections),
                      summary |->
                          _generate_comparison_summary(
                              _compare_sections(old_act.sections, new_act.sections,
                                                SectionOrder, SectionOrder))]
             IN  [cmp |-> _store_comparison(cmp, comparison_result, date, seconds),
                  val |-> comparison_result]

\* the act dicts written between two comparisons
ComparePayloads ==
    {[Base EXCEPT !.version = "2025.2", !.sections = S6B],
     [Base EXCEPT !.status = "repealed"],
     [NewAct EXCEPT !.sections = None]}

CompareVersions(act_id, old_version, new_version) ==
    LET r == compare_versions(legal_acts, version_comparison, act_id,
                              old_version, new_version, today, clock)
    IN  /\ Len(r.cmp) <= MaxComparisons
        /\ version_comparison' = r.cmp
        /\ last' = [op |-> "compare_versions", compared |-> act_id,
                    old_version |-> old_version, new_version |-> new_version,
                    comparison |-> r.val]
        /\ UNCHANGED <<registryVars, version_history, today, diffVars, timeVars,
                       amendment_notifications, change_records, connections>>

\* a second goes by
TickSecond ==
    /\ clock < MaxClock
    /\ clock' = clock + 1
    /\ UNCHANGED <<registryVars, version_history, today, last, diffVars,
                   last_request_time, ledgerVars, connections>>

NextCompare ==
    \/ \E act_data \in ComparePayloads : AddOrUpdateAct(act_data)
    \/ \E act_id \in {"rti_act_2005", "shops_establishments_act"},
          old_version, new_version \in {"2025.1", "2025.2"} :
           CompareVersions(act_id, old_version, new_version)
    \/ TickSecond

SpecCompare == Init /\ [][NextCompare]_vars

-----------------------------------------------------------------------------
(* Amendment notifications: add_amendment_notification and                 *)
(* get_amendment_notifications                                             *)

\* amendment_notifications rows the model lets the ledger hold
MaxNotifications == 3

\* seconds in a day
SecondsPerDay == 86400

\* the keys add_amendment_notification reads with [] and not with get()
NotificationKeys == {"notification_number", "act_id", "notification_date"}

\* add_amendment_notification: the table it leaves and the notification_id it
\* returns, "" (here <<>>) when a key is missing or the notification_id, the
\* primary key, is in the table.  notification_id is
\* f"NOT_{notification_number}_{now:%Y%m%d}", kept as its parts.  The optional
\* columns the code copies with get() are left out, but for status.
add_amendment_notification(tbl, notification, date) ==
    IF ~(NotificationKeys \subseteq DOMAIN notification)
    THEN [tbl |-> tbl, val |-> <<>>]
    ELSE LET notification_id == <<"NOT", notification.notification_number, date>>
         IN  IF \E i \in 1..Len(tbl) : tbl[i].notification_id = notification_id
             THEN [tbl |-> tbl, val |-> <<>>]
             ELSE [tbl |-> Append(tbl,
                      [notification_id |-> notification_id,
                       act_id |-> notification.act_id,
                       notification_number |-> notification.notification_number,
                       notification_date |-> notification.notification_date,
                       status |-> IF "status" \in DOMAIN notification
                                  THEN notification.status ELSE "active"]),
                   val |-> notification_id]

\* datetime(notification_date) >= datetime('now', '-{days} days'): the date
\* text is midnight of its day, and 'now' is the day and the second of the
\* clock (the clock of the process is taken to be UTC, as SQLite's is)
InWindow(notification_date, days, date, seconds) ==
    DateOrdinal[notification_date] * SecondsPerDay
        >= (DateOrdinal[date] - days) * SecondsPerDay + seconds

\* SELECT ... WHERE act_id = ? AND datetime(notification_date) >=
\* datetime('now', '-{days} days') ORDER BY notification_date DESC: the rows,
\* as row numbers, in every order SQLite may give them
SelectNotifications(tbl, act_id, days, date, seconds) ==
    LET match == {i \in 1..Len(tbl) :
                     /\ tbl[i].act_id = act_id
                     /\ InWindow(tbl[i].notification_date, days, date, seconds)}
        n == Cardinality(match)
    IN  {f \in [1..n -> match] :
            /\ \A i, j \in 1..n : i # j => f[i] # f[j]
            /\ \A i \in 1..(n - 1) :
                  DateOrdinal[tbl[f[i]].notification_date]
                      >= DateOrdinal[tbl[f[i + 1]].notification_date]}

\* the dict get_amendment_notifications builds from a row
NotificationOfRow(row) ==
    [notification_id |-> row.notification_id,
     notification_number |-> row.notification_number,
     notification_date |-> row.notification_date,
     status |-> row.status]

get_amendment_notifications(tbl, rows) ==
    [i \in 1..Len(rows) |-> NotificationOfRow(tbl[rows[i]])]

\* the days on which the ledger is written and read: the day the model
\* starts and 89, 90 and 91 days after it
NoticeDays == {"2025-01-15", "2025-04-14", "2025-04-15", "2025-04-16"}

\* the notification dicts a caller passes, and one with no date
Notifications ==
    {[act_id |-> a, notification_number |-> n, notification_date |-> d,
      notification_type |-> "amendment"] :
        a \in LedgerActs, n \in {"RTI-2025-01", "CCS-CONDUCT-2025-02"},
        d \in NoticeDays}
    \cup {[act_id |-> "rti_act_2005", notification_number |-> "RTI-2025-01"]}

\* a notification dated the day it is added
DatedToday(notification) ==
    "notification_date" \in DOMAIN notification
        => notification.notification_date = today

\* add_amendment_notification, called with a notification dated today

AddAmendmentNotification(notification) ==
    LET r == add_amendment_notification(amendment_notifications, notification, today)
    IN  /\ DatedToday(notification)
        /\ Len(r.tbl) <= MaxNotifications
        /\ amendment_notifications' = r.tbl
        /\ last' = [op |-> "add_amendment_notification",
                    notification |-> notification, notification_id |-> r.val]
        /\ UNCHANGED <<registryVars, version_history, today, diffVars, timeVars,
                       version_comparison, change_records, connections>>

GetAmendmentNotifications(act_id, days) ==
    /\ \E rows \in SelectNotifications(amendment_notifications, act_id, days,
                                       today, clock) :
          last' = [op |-> "get_amendment_notifications", notified |-> act_id,
                   days |-> days,
                   notifications |->
                       get_amendment_notifications(amendment_notifications, rows)]
    /\ UNCHANGED <<registryVars, version_history, today, diffVars, sideVars>>

\* days go by, the time of day staying what it is
AdvanceDay(d) ==
    /\ DateOrdinal[d] > DateOrdinal[today]
    /\ today' = d
    /\ UNCHANGED <<registryVars, version_history, last, diffVars, sideVars>>

NextNotice ==
    \/ \E notification \in Notifications : AddAmendmentNotification(notification)
    \/ \E act_id \in LedgerActs : GetAmendmentNotifications(act_id, 90)
    \/ \E d \in NoticeDays : AdvanceDay(d)
    \/ TickSecond

SpecNotice == Init /\ [][NextNotice]_vars

-----------------------------------------------------------------------------
(* LegalActsUpdater: the rate limiter, update_all_acts and check_for_updates *)

\* self.request_delay, seconds between requests
request_delay == 2

\* time.time(): seconds, counted from the midnight before day 1 of the calendar
Now(date, seconds) == DateOrdinal[date] * SecondsPerDay + seconds

\* _rate_limit at time now: the time at which it returns, which is also the
\* last_request_time it leaves
_rate_limit(now, last_request) ==
    LET time_since_last == now - last_request
    IN  IF time_since_last < request_delay
        THEN now + (request_delay - time_since_last)
        ELSE now

\* A call of the registry when the storage fails (sqlite3 raises): both
\* add_or_update_act and get_act catch the exception, write nothing and
\* return False and None.
StoredAct(acts, act_id, db_ok) == IF db_ok THEN get_act(acts, act_id) ELSE None

Upsert(acts, log, act_data, db_ok) ==
    IF db_ok THEN add_or_update_act(acts, log, act_data)
    ELSE [acts |-> acts, log |-> log, val |-> FALSE]

\* priority_acts of _update_from_india_code, cut to two of its ten slugs
priority_acts == <<"right-to-information-act-2005", "shops-establishments-act">>

\* The state a pass of the updater threads through its loops: the store, the
\* time, last_request_time, and what the pass has done so far: the times at
\* which its fetches started, the calls of add_or_update_act it made, the
\* items whose fetch gave no act and the turns its loops have taken.
PassStart(acts, log, date, seconds, last_request) ==
    [acts |-> acts, log |-> log, date |-> date, now |-> Now(date, seconds),
     last_request |-> last_request,
     fetches |-> <<>>, upserts |-> 0, failed |-> 0, items |-> 0,
     checked |-> 0, updated |-> 0]

\* one turn of the loop of _update_from_india_code: _rate_limit, the fetch,
\* which takes latency seconds, and add_or_update_act of what it gave
IndiaCodeItem(st, act_slug, response, latency, db_ok) ==
    LET start == _rate_limit(st.now, st.last_request)
        act_data == _fetch_act_from_india_code(act_slug, response, st.date)
        r == IF act_data = None
             THEN [acts |-> st.acts, log |-> st.log, val |-> FALSE]
             ELSE Upsert(st.acts, st.log, act_data, db_ok)
    IN  [st EXCEPT !.acts = r.acts, !.log = r.log,
                   !.now = start + latency, !.last_request = start,
                   !.fetches = Append(@, start),
                   !.upserts = IF act_data = None THEN @ ELSE @ + 1,
                   !.failed = IF act_data = None THEN @ + 1 ELSE @,
                   !.items = @ + 1,
                   !.checked = IF act_data = None THEN @ ELSE @ + 1,
                   !.updated = IF r.val THEN @ + 1 ELSE @]

RECURSIVE IndiaCodeLoop(_, _, _, _, _)

\* a plausible slip: the first item whose fetch fails ends the loop
IndiaCodeLoop_AbortOnFailure(st, slugs, responses, latency, db_ok) ==
    IF slugs = <<>> THEN st
    ELSE CHOOSE end \in
             {IF next.failed > st.failed THEN next
              ELSE IndiaCodeLoop(next, Tail(slugs), responses, latency, db_ok) :
                 next \in {IndiaCodeItem(st, Head(slugs), responses[Head(slugs)],
                                         latency, db_ok)}} : TRUE

\* the loop of _update_from_india_code (the state after a turn is bound as a
\* value, so that it is computed once)
IndiaCodeLoop(st, slugs, responses, latency, db_ok) ==
    IF slugs = <<>> THEN st
    ELSE CHOOSE end \in
             {IndiaCodeLoop(next, Tail(slugs), responses, latency, db_ok) :
                 next \in {IndiaCodeItem(st, Head(slugs), responses[Head(slugs)],
                                         latency, db_ok)}} : TRUE

\* _update_from_india_code: the state it leaves and its results dict; the
\* summary f"India Code: {updated}/{checked} acts updated" is kept as its parts
_update_from_india_code(st, responses, latency, db_ok) ==
    CHOOSE r \in
        {[st |-> end,
          results |-> [checked |-> end.checked, updated |-> end.updated, new |-> 0,
                       summary |-> <<"India Code", end.updated, end.checked>>]] :
            end \in {IndiaCodeLoop([st EXCEPT !.checked = 0, !.updated = 0],
                                   priority_acts, responses, latency, db_ok)}} : TRUE

\* _get_simulated_gazette_updates
_get_simulated_gazette_updates ==
    <<[act_id |-> "rti_act_2005", amendment_date |-> "2025-01-15",
       notification_number |-> "RTI-2025-01",
       description |-> "Enhanced digital filing provisions and penalty updates",
       sections_affected |-> <<"Section 6", "Section 20">>],
      [act_id |-> "ccs_conduct_rules_1964", amendment_date |-> "2025-02-01",
       notification_number |-> "CCS-CONDUCT-2025-02",
       description |-> "Updated social media and digital conduct guidelines",
       sections_affected |-> <<"Rule 3", "Rule 13">>]>>

\* one turn of the loop of _update_from_gazette: _apply_gazette_amendment
GazetteItem(st, amendment, db_ok) ==
    LET act_data == IF db_ok THEN GazetteActData(st.acts, amendment) ELSE None
        r == IF act_data = None
             THEN [acts |-> st.acts, log |-> st.log, val |-> FALSE]
             ELSE Upsert(st.acts, st.log, act_data, db_ok)
    IN  [st EXCEPT !.acts = r.acts, !.log = r.log,
                   !.upserts = IF act_data = None THEN @ ELSE @ + 1,
                   !.items = @ + 1,
                   !.checked = @ + 1,
                   !.updated = IF r.val THEN @ + 1 ELSE @]

RECURSIVE GazetteLoop(_, _, _)
GazetteLoop(st, amendments, db_ok) ==
    IF amendments = <<>> THEN st
    ELSE CHOOSE end \in
             {GazetteLoop(next, Tail(amendments), db_ok) :
                 next \in {GazetteItem(st, Head(amendments), db_ok)}} : TRUE

\* _update_from_gazette
_update_from_gazette(st, db_ok) ==
    CHOOSE r \in
        {[st |-> end,
          results |-> [checked |-> end.checked, updated |-> end.updated,
                       summary |-> <<"Gazette", end.updated, end.checked>>]] :
            end \in {GazetteLoop([st EXCEPT !.checked = 0, !.updated = 0],
                                 _get_simulated_gazette_updates, db_ok)}} : TRUE

\* priority_updates of _update_priority_acts
priority_updates ==
    <<[act_id |-> "constitution_india_1950",
       updates |-> [last_updated |-> "2025-01-15", version |-> "2025.1",
                    amendments |->
                        <<[date |-> "2025-01-15",
                           description |-> "Updated interpretation guidelines for digital rights",
                           notification |-> "CONST-2025-01"]>>]],
      [act_id |-> "environment_protection_act_1986",
       updates |-> [last_updated |-> "2025-01-20", version |-> "2025.1",
                    amendments |->
                        <<[date |-> "2025-01-20",
                           description |-> "Enhanced climate change provisions and carbon credit framework",
                           notification |-> "ENV-2025-01"]>>]]>>

\* the merge of the amendments: each new one that is not in the list is appended
RECURSIVE MergeAmendments(_, _)
MergeAmendments(existing_amendments, value) ==
    IF value = <<>> THEN existing_amendments
    ELSE MergeAmendments(
             IF \E i \in 1..Len(existing_amendments) :
                    existing_amendments[i] = Head(value)
             THEN existing_amendments
             ELSE Append(existing_amendments, Head(value)),
             Tail(value))

\* one turn of the loop of _update_priority_acts
PriorityItem(st, update, db_ok) ==
    LET act == StoredAct(st.acts, update.act_id, db_ok)
        act_data ==
            IF act = None THEN None
            ELSE [act EXCEPT
                    !.last_updated = update.updates.last_updated,
                    !.version = update.updates.version,
                    !.amendments = MergeAmendments(@, update.updates.amendments)]
        r == IF act_data = None
             THEN [acts |-> st.acts, log |-> st.log, val |-> FALSE]
             ELSE Upsert(st.acts, st.log, act_data, db_ok)
    IN  [st EXCEPT !.acts = r.acts, !.log = r.log,
                   !.upserts = IF act_data = None THEN @ ELSE @ + 1,
                   !.items = @ + 1,
                   !.updated = IF r.val THEN @ + 1 ELSE @]

RECURSIVE PriorityLoop(_, _, _)
PriorityLoop(st, todo, db_ok) ==
    IF todo = <<>> THEN st
    ELSE CHOOSE end \in
             {PriorityLoop(next, Tail(todo), db_ok) :
                 next \in {PriorityItem(st, Head(todo), db_ok)}} : TRUE

\* _update_priority_acts
_update_priority_acts(st, db_ok) ==
    CHOOSE r \in
        {[st |-> end,
          results |-> [updated |-> end.updated,
                       summary |-> <<"Priority", end.updated>>]] :
            end \in {PriorityLoop([st EXCEPT !.updated = 0], priority_updates,
                                  db_ok)}} : TRUE

\* update_all_acts (both sources are enabled in __init__): the state it
\* leaves and the update_results it returns.  No call it makes raises, so
\* the except clause that adds to "errors" is never entered.
update_all_acts(st, responses, latency, db_ok) ==
    CHOOSE r \in UNION { UNION {
        {[st |-> priority.st,
          update_results |->
              [total_checked |-> india.results.checked + gazette.results.checked,
               updated |-> india.results.updated + gazette.results.updated
                               + priority.results.updated,
               errors |-> 0,
               new_acts |-> india.results.new,
               sources_used |-> <<"india_code", "gazette">>,
               update_summary |-> <<india.results.summary, gazette.results.summary,
                                    priority.results.summary>>]] :
            priority \in {_update_priority_acts(gazette.st, db_ok)}} :
            gazette \in {_update_from_gazette(india.st, db_ok)}} :
            india \in {_update_from_india_code(st, responses, latency, db_ok)}} : TRUE

\* check_for_updates: the state it leaves and the dict it returns.  The act
\* is older than 30 days when (datetime.now() - last_updated).days > 30,
\* last_updated being midnight of its day.  _fetch_and_update_act fetches at
\* once, with no call of _rate_limit.
\* a plausible slip: an act updated 30 days ago is fetched again
needs_update_AtThirty(days_since_update) == days_since_update >= 30

\* if days_since_update > 30
needs_update(days_since_update) == days_since_update > 30

check_for_updates(st, act_id, response, latency, db_ok) ==
    LET act == StoredAct(st.acts, act_id, db_ok)
    IN  IF act = None
        THEN [st |-> st, val |-> [error |-> "not found"]]
        ELSE LET days_since_update ==
                     DateOrdinal[st.date] - DateOrdinal[act.last_updated]
             IN  IF needs_update(days_since_update)
                 THEN LET fetched == _fetch_act_from_india_code(SlugOf[act_id],
                                                                response, st.date)
                          r == _fetch_and_update_act(st.acts, st.log, act_id,
                                                     response, st.date)
                      IN  [st |-> [st EXCEPT
                                     !.acts = r.acts, !.log = r.log,
                                     !.now = @ + latency,
                                     !.fetches = Append(@, st.now),
                                     !.upserts = IF fetched = None THEN @ ELSE @ + 1,
                                     !.failed = IF fetched = None THEN @ + 1 ELSE @],
                           val |-> [act_id |-> act_id, needs_update |-> TRUE,
                                    days_since_update |-> days_since_update,
                                    update_attempted |-> TRUE,
                                    update_result |-> [success |-> r.val]]]
                 ELSE [st |-> st,
                       val |-> [act_id |-> act_id, needs_update |-> FALSE,
                                days_since_update |-> days_since_update,
                                current_version |-> act.version]]

-----------------------------------------------------------------------------
(* The update service as a state machine *)

\* update_log rows the model lets the passes of the updater append
MaxPassLog == 4
\* seconds the model lets the calls of the updater take in all
MaxSessionClock == 3

\* seconds a fetch takes
Latencies == {0, 1}

\* what the fetches of the updater give: no page, a page with no title, a page
UpdaterResponses ==
    {[page |-> FALSE, has_title |-> FALSE], [page |-> TRUE, has_title |-> FALSE],
     [page |-> TRUE, has_title |-> TRUE,
      title |-> "The Right to Information Act, 2005", sections |-> S6A]}

\* the days on which the updater is called: the seeds are 5 and 0, 30 and 25,
\* 31 and 26 days old
UpdaterDays == {"2025-01-15", "2025-02-09", "2025-02-10"}

\* the slugs update_all_acts fetches
PrioritySlugs == {priority_acts[i] : i \in 1..Len(priority_acts)}

\* the acts check_for_updates is called for: two that are stored and one that
\* is not
UpdaterActs == {"rti_act_2005", "constitution_india_1950", "shops_establishments_act"}

\* the act dicts written between two calls of the updater: an act that is
\* stored and that get_act does not return
UpdaterPayloads == {[Base EXCEPT !.status = "repealed"]}

\* what a call of the updater leaves in the variables
Session(st) ==
    /\ Len(st.log) <= MaxPassLog
    /\ st.now - Now(today, 0) <= MaxSessionClock
    /\ legal_acts' = st.acts
    /\ update_log' = st.log
    /\ clock' = st.now - Now(today, 0)
    /\ last_request_time' = st.last_request
    /\ UNCHANGED <<version_history, today, diffVars, ledgerVars, connections>>

UpdateAllActs(responses, latency, db_ok) ==
    \E r \in {update_all_acts(
                  PassStart(legal_acts, update_log, today, clock, last_request_time),
                  responses, latency, db_ok)} :
        /\ Session(r.st)
        /\ last' = [op |-> "update_all_acts", db_ok |-> db_ok,
                    fetches |-> r.st.fetches, upserts |-> r.st.upserts,
                    failed |-> r.st.failed, items |-> r.st.items,
                    update_results |-> r.update_results]

CheckForUpdates(act_id, response, latency, db_ok) ==
    \E r \in {check_for_updates(
                  PassStart(legal_acts, update_log, today, clock, last_request_time),
                  act_id, response, latency, db_ok)} :
        /\ Session(r.st)
        /\ last' = [op |-> "check_for_updates", checked |-> act_id,
                    db_ok |-> db_ok,
                    fetches |-> r.st.fetches, upserts |-> r.st.upserts,
                    failed |-> r.st.failed, update_result |-> r.val]

NextUpdater ==
    \/ \E responses \in [PrioritySlugs -> UpdaterResponses],
          latency \in Latencies, db_ok \in BOOLEAN :
           UpdateAllActs(responses, latency, db_ok)
    \/ \E act_id \in UpdaterActs,
          response \in UpdaterResponses, latency \in Latencies, db_ok \in BOOLEAN :
           CheckForUpdates(act_id, response, latency, db_ok)
    \/ \E act_data \in UpdaterPayloads : AddOrUpdateAct(act_data)
    \/ \E d \in UpdaterDays : AdvanceDay(d)

SpecUpdater == Init /\ [][NextUpdater]_vars

-----------------------------------------------------------------------------
(* The fetch and the gazette amendment of the update service, day after day *)

\* the act dicts written between two calls of the service: an act that is
\* stored and not returned, a later version, an act of another id
ServicePayloads ==
    {[Base EXCEPT !.status = "repealed"],
     [Base EXCEPT !.version = "2025.2", !.sections = S6B],
     NewAct}

\* the days on which the service is called
ServiceDays == {"2025-01-15", "2025-02-10"}

NextService ==
    \/ \E act_id \in FetchedActs, response \in Responses :
           FetchAndUpdateAct(act_id, response)
    \/ \E amendment \in GazetteAmendments : ApplyGazetteAmendment(amendment)
    \/ \E act_data \in ServicePayloads : AddOrUpdateAct(act_data)
    \/ \E d \in ServiceDays : AdvanceDay(d)

SpecService == Init /\ [][NextService]_vars

-----------------------------------------------------------------------------
(* add_or_update_act statement by statement, on connections side by side *)

\* the tables as the other connections see them
Tables == [acts |-> legal_acts, log |-> update_log]

\* what a statement of an open transaction does to the tables
ApplyStatement(db, statement) ==
    CASE statement.stmt = "UPDATE legal_acts" ->
             [db EXCEPT !.acts = [@ EXCEPT ![statement.row.act_id] = statement.row]]
      [] statement.stmt = "INSERT INTO legal_acts" ->
             [db EXCEPT !.acts = @ @@ (statement.row.act_id :> statement.row)]
      [] statement.stmt = "INSERT INTO update_log" ->
             [db EXCEPT !.log = Append(@, statement.row)]

\* a plausible slip: the connection is in autocommit mode, each statement is
\* written as it is executed
execute_Autocommit(db, txn, statement) ==
    [db |-> ApplyStatement(db, statement), txn |-> txn]

\* cursor.execute of an INSERT or an UPDATE: sqlite3 opens a transaction
\* before the first of them, and the statement stays in it until conn.commit()
execute(db, txn, statement) ==
    [db |-> db, txn |-> Append(txn, statement)]

\* conn.commit(): the statements of the transaction reach the tables together
RECURSIVE commit(_, _)
commit(db, txn) ==
    IF txn = <<>> THEN db ELSE commit(ApplyStatement(db, Head(txn)), Tail(txn))

\* a plausible slip: the version is read again when the row is written
existing_version_AtWrite(conn, acts) == acts[conn.act_data.act_id].version

\* existing_version: the local the SELECT filled, whatever the row holds now
existing_version(conn, acts) == conn.existing.version

\* another connection has a transaction open: it holds the write lock
Locked(c) == \E o \in Connections \ {c} :
                 connections[o].pc # "closed" /\ connections[o].txn # <<>>

\* the call returns: the connection is dropped, and with it what it had not
\* committed; last keeps the statement the call had reached
Return(c, changed) ==
    /\ connections' = [connections EXCEPT ![c] = Closed]
    /\ last' = [op |-> "add_or_update_act", connection |-> c,
                act_data |-> connections[c].act_data,
                existing |-> connections[c].existing,
                at |-> connections[c].pc, changed |-> changed]

\* _generate_checksum, connect, and SELECT checksum, version ... fetchone();
\* the call returns False at once when the checksum is the stored one
SelectExisting(c, act_data) ==
    LET checksum == _generate_checksum(act_data)
        act_id == act_data.act_id
        existing == IF act_id \in DOMAIN legal_acts
                    THEN [checksum |-> legal_acts[act_id].checksum,
                          version |-> legal_acts[act_id].version]
                    ELSE None
    IN  /\ connections[c] = Closed
        /\ IF existing # None /\ existing.checksum = checksum
           THEN /\ last' = [op |-> "add_or_update_act", connection |-> c,
                            act_data |-> act_data, existing |-> existing,
                            at |-> "closed", changed |-> FALSE]
                /\ UNCHANGED connections
           ELSE /\ connections' = [connections EXCEPT ![c] =
                       [pc |-> "selected", act_data |-> act_data,
                        checksum |-> checksum, existing |-> existing,
                        txn |-> <<>>]]
                /\ UNCHANGED last
        /\ UNCHANGED <<registryVars, version_history, today, diffVars, timeVars,
                       ledgerVars>>

\* one statement of the call, or its failure: sqlite3 raises, the except
\* branch returns False and the transaction is rolled back
Statement(c, statement, pc, ok) ==
    /\ IF ok
       THEN LET r == execute(Tables, connections[c].txn, statement)
            IN  /\ ~Locked(c)
                /\ legal_acts' = r.db.acts
                /\ update_log' = r.db.log
                /\ connections' = [connections EXCEPT ![c].txn = r.txn,
                                                      ![c].pc = pc]
                /\ UNCHANGED last
       ELSE /\ Return(c, FALSE)
            /\ UNCHANGED registryVars
    /\ UNCHANGED <<version_history, today, diffVars, timeVars, ledgerVars>>

\* UPDATE legal_acts SET ... WHERE act_id = ?
UpdateRow(c, ok) ==
    /\ connections[c].pc = "selected"
    /\ connections[c].existing # None
    /\ Statement(c, [stmt |-> "UPDATE legal_acts",
                     row |-> RowOf(connections[c].act_data, connections[c].checksum)],
                 "updated", ok)

\* INSERT INTO update_log ...
InsertLogRow(c, ok) ==
    /\ connections[c].pc = "updated"
    /\ Statement(c, [stmt |-> "INSERT INTO update_log",
                     row |-> LogRow(connections[c].act_data,
                                    existing_version(connections[c], legal_acts))],
                 "logged", ok)

\* INSERT INTO legal_acts ...: the primary key raises IntegrityError when the
\* act has been inserted since the SELECT
InsertRow(c, ok) ==
    /\ connections[c].pc = "selected"
    /\ connections[c].existing = None
    /\ Statement(c, [stmt |-> "INSERT INTO legal_acts",
                     row |-> RowOf(connections[c].act_data, connections[c].checksum)],
                 "logged",
                 ok /\ connections[c].act_data.act_id \notin DOMAIN legal_acts)

\* conn.commit(), conn.close() and return True
CommitConnection(c, ok) ==
    /\ connections[c].pc = "logged"
    /\ IF ok
       THEN LET db == commit(Tables, connections[c].txn)
            IN  /\ Len(db.log) <= MaxLog
                /\ legal_acts' = db.acts
                /\ update_log' = db.log
                /\ Return(c, TRUE)
       ELSE /\ Return(c, FALSE)
            /\ UNCHANGED registryVars
    /\ UNCHANGED <<version_history, today, diffVars, timeVars, ledgerVars>>

\* the act dicts of the calls that run side by side: two later versions of
\* a stored act, and a new act
ConcurrentPayloads ==
    {[Base EXCEPT !.version = "2025.2", !.sections = S6B],
     [Base EXCEPT !.version = "2025.3", !.sections = S6A20A],
     NewAct}

NextConcurrent ==
    \/ \E c \in Connections, act_data \in ConcurrentPayloads :
           SelectExisting(c, act_data)
    \/ \E c \in Connections, ok \in BOOLEAN : UpdateRow(c, ok)
    \/ \E c \in Connections, ok \in BOOLEAN : InsertLogRow(c, ok)
    \/ \E c \in Connections, ok \in BOOLEAN : InsertRow(c, ok)
    \/ \E c \in Connections, ok \in BOOLEAN : CommitConnection(c, ok)

SpecConcurrent == Init /\ [][NextConcurrent]_vars

-----------------------------------------------------------------------------
(* The registry, the ledger and the update service in one process, and the  *)
(* construction of the registry over the store of an earlier process        *)

\* change_records rows the model lets the ledger hold
MaxChanges == 2

\* the keys record_change subscripts: a dict that lacks one raises KeyError
ChangeKeys == {"act_id", "change_type", "change_date"}

\* record_change on the table: the table it leaves and the change_id it
\* returns, "" (here <<>>) when a key is missing or the change_id, the
\* primary key, is in the table.  change_id is
\* f"CHG_{now:%Y%m%d_%H%M%S}_{act_id}", kept as its parts.  The optional
\* columns the code copies with get() are left out, but for section_number.
record_change(tbl, change_record, date, seconds) ==
    IF ~(ChangeKeys \subseteq DOMAIN change_record)
    THEN [tbl |-> tbl, val |-> <<>>]
    ELSE LET change_id == <<"CHG", date, seconds, change_record.act_id>>
         IN  IF \E i \in 1..Len(tbl) : tbl[i].change_id = change_id
             THEN [tbl |-> tbl, val |-> <<>>]
             ELSE [tbl |-> Append(tbl,
                      [change_id |-> change_id,
                       act_id |-> change_record.act_id,
                       change_type |-> change_record.change_type,
                       section_number |->
                           IF "section_number" \in DOMAIN change_record
                           THEN change_record.section_number ELSE None,
                       change_date |-> change_record.change_date]),
                   val |-> change_id]

\* a plausible slip: the tables are created anew at each construction
init_database_Recreate(acts, log) == [acts |-> <<>>, log |-> <<>>]

\* init_database: CREATE TABLE IF NOT EXISTS leaves the tables of an
\* existing store as they are
init_database(acts, log) == [acts |-> acts, log |-> log]

\* LegalActsDatabase.__init__: init_database, then load_initial_acts
LegalActsDatabase(acts, log) ==
    LET db == init_database(acts, log)
    IN  load_initial_acts(db.acts, db.log, _get_initial_acts_data)

RecordChange(change_record) ==
    LET r == record_change(change_records, change_record, today, clock)
    IN  /\ Len(r.tbl) <= MaxChanges
        /\ change_records' = r.tbl
        /\ last' = [op |-> "record_change", change_record |-> change_record,
                    change_id |-> r.val]
        /\ UNCHANGED <<registryVars, version_history, today, diffVars, timeVars,
                       version_comparison, amendment_notifications, connections>>

\* the process ends and another one constructs the registry over the store
Restart ==
    LET r == LegalActsDatabase(legal_acts, update_log)
    IN  /\ Len(r.log) <= MaxLog
        /\ legal_acts' = r.acts
        /\ update_log' = r.log
        /\ last' = [op |-> "LegalActsDatabase", rows_before |-> legal_acts,
                    log_before |-> update_log]
        /\ UNCHANGED <<version_history, today, diffVars, sideVars>>

\* the act dicts written to the registry: a later version of a seed act and
\* an act that is no seed act
SystemPayloads ==
    {[Base EXCEPT !.version = "2025.2", !.sections = S6B], NewAct}

\* the version of a seed act with two checksums, and a dict that lacks
\* release_date
SystemVersionInfos ==
    {[version |-> "2025.1", release_date |-> "2025-01-15",
      amendment_type |-> "amendment", sections_affected |-> <<"Section 6">>,
      checksum |-> c] : c \in {"c", "d"}}
    \cup {[version |-> "2025.1", amendment_type |-> "amendment", checksum |-> "c"]}

\* a change of a section, and a dict that lacks change_date
SystemChangeRecords ==
    {[act_id |-> "rti_act_2005", change_type |-> "substitution",
      section_number |-> "Section 6", change_date |-> "2025-01-15"],
     [act_id |-> "rti_act_2005", change_type |-> "substitution"]}

\* a notification of today, and a dict that lacks notification_date
SystemNotifications ==
    {[act_id |-> "rti_act_2005", notification_number |-> "RTI-2025-01",
      notification_date |-> "2025-01-15", notification_type |-> "amendment"],
     [act_id |-> "rti_act_2005", notification_number |-> "RTI-2025-01"]}

NextSystem ==
    \/ \E act_data \in SystemPayloads : AddOrUpdateAct(act_data)
    \/ \E amendment \in GazetteAmendments : ApplyGazetteAmendment(amendment)
    \/ \E version_info \in SystemVersionInfos :
           CreateVersion("rti_act_2005", version_info)
    \/ \E change_record \in SystemChangeRecords : RecordChange(change_record)
    \/ \E notification \in SystemNotifications :
           AddAmendmentNotification(notification)
    \/ \E act_id \in {"rti_act_2005", "shops_establishments_act"} :
           CompareVersions(act_id, "2025.1", "2025.2")
    \/ Restart

SpecSystem == Init /\ [][NextSystem]_vars

-----------------------------------------------------------------------------
(* A caller that reads an act and writes it back *)

\* act = legal_acts_db.get_act(act_id); if act: legal_acts_db.add_or_update_act(act)
\* with no key of the dict changed in between
ReadThenWrite(act_id) ==
    \E act \in {get_act(legal_acts, act_id)} :
        /\ act # None
        /\ \E r \in {add_or_update_act(legal_acts, update_log, act)} :
               /\ Commit(r)
               /\ last' = [op |-> "read_then_write", act_id |-> act_id,
                           changed |-> r.val]
        /\ UNCHANGED <<version_history, today, diffVars, sideVars>>

NextReadWrite ==
    \/ \E act_data \in ServicePayloads : AddOrUpdateAct(act_data)
    \/ \E amendment \in GazetteAmendments : ApplyGazetteAmendment(amendment)
    \/ \E act_id \in {"rti_act_2005", "shops_establishments_act"} :
           ReadThenWrite(act_id)

SpecReadWrite == Init /\ [][NextReadWrite]_vars

-----------------------------------------------------------------------------
(* Passes of update_all_acts one after the other *)

\* seconds the model lets the passes of one day take in all
MaxDayClock == 6

\* a pass of update_all_acts in which the storage works, with what its
\* fetches gave
Pass(responses, latency) ==
    \E r \in {update_all_acts(
                  PassStart(legal_acts, update_log, today, clock, last_request_time),
                  responses, latency, TRUE)} :
        /\ Len(r.st.log) <= MaxPassLog
        /\ r.st.now - Now(today, 0) <= MaxDayClock
        /\ legal_acts' = r.st.acts
        /\ update_log' = r.st.log
        /\ clock' = r.st.now - Now(today, 0)
        /\ last_request_time' = r.st.last_request
        /\ last' = [op |-> "pass", responses |-> responses,
                    update_results |-> r.update_results]
        /\ UNCHANGED <<version_history, today, diffVars, ledgerVars, connections>>

NextPasses ==
    \/ \E responses \in [PrioritySlugs -> UpdaterResponses], latency \in Latencies :
           Pass(responses, latency)
    \/ \E act_data \in UpdaterPayloads : AddOrUpdateAct(act_data)

SpecPasses == Init /\ [][NextPasses]_vars

-----------------------------------------------------------------------------
(* The readers of the registry: get_acts_by_category, search_acts,         *)
(* get_all_acts and get_database_stats                                     *)

\* the names and the categories of the model's acts, in the order of ORDER BY
NameOrder ==
    <<"Constitution of India", "Right to Information Act",
      "Shops and Establishments Act", "The Right to Information Act, 2005">>
CategoryOrder == <<"Constitutional Law", "Trade Law", "Transparency Law">>

Rank(order, x) == CHOOSE i \in 1..Len(order) : order[i] = x

\* row comes no later than other under ORDER BY name, or ORDER BY category, name
Before(row, other, by_category) ==
    IF by_category /\ row.category # other.category
    THEN Rank(CategoryOrder, row.category) < Rank(CategoryOrder, other.category)
    ELSE Rank(NameOrder, row.name) <= Rank(NameOrder, other.name)

\* the act_ids of the selected rows in the order of the ORDER BY clause; no
\* two acts of the model have the same name
RECURSIVE OrderedIds(_, _, _)
OrderedIds(acts, ids, by_category) ==
    IF ids = {} THEN <<>>
    ELSE LET first == CHOOSE id \in ids :
                          \A other \in ids : Before(acts[id], acts[other], by_category)
         IN  <<first>> \o OrderedIds(acts, ids \ {first}, by_category)

\* get_acts_by_category: WHERE category = ? AND status = 'active' ORDER BY name
get_acts_by_category(acts, category) ==
    LET ids == OrderedIds(acts,
                   {id \in DOMAIN acts :
                       acts[id].category = category /\ acts[id].status = "active"},
                   FALSE)
    IN  [i \in 1..Len(ids) |-> ActOfRow(acts[ids[i]])]

\* the search terms of the model and, for each, the names, section ids and
\* texts of the model that LIKE '%term%' matches
SearchTerms == {"information", "Section 20", "Act"}
Like ==
    [term \in SearchTerms |->
        CASE term = "information" ->
                 {"Right to Information Act", "The Right to Information Act, 2005"}
          [] term = "Section 20" -> {"Section 20"}
          [] term = "Act" ->
                 {"Right to Information Act", "Shops and Establishments Act",
                  "The Right to Information Act, 2005"}]

\* search_acts: WHERE (name LIKE ? OR sections LIKE ?) AND status = 'active'
\* ORDER BY name; the sections column is the JSON text
search_acts(acts, search_term) ==
    LET ids == OrderedIds(acts,
                   {id \in DOMAIN acts :
                       /\ \/ acts[id].name \in Like[search_term]
                          \/ \E i \in 1..Len(acts[id].sections) :
                                 acts[id].sections[i] \in Like[search_term]
                       /\ acts[id].status = "active"},
                   FALSE)
    IN  [i \in 1..Len(ids) |-> ActOfRow(acts[ids[i]])]

\* get_all_acts: the columns it selects WHERE status = 'active'
\* ORDER BY category, name (ministry is left out of the model's rows)
get_all_acts(acts) ==
    LET ids == OrderedIds(acts,
                   {id \in DOMAIN acts : acts[id].status = "active"}, TRUE)
    IN  [i \in 1..Len(ids) |->
            [act_id |-> acts[ids[i]].act_id, name |-> acts[ids[i]].name,
             year |-> acts[ids[i]].year,
             last_updated |-> acts[ids[i]].last_updated,
             version |-> acts[ids[i]].version,
             category |-> acts[ids[i]].category]]

\* get_database_stats: the two counts over legal_acts, both WHERE status =
\* 'active'; the counts over the timestamps are left out
get_database_stats(acts) ==
    LET active == {id \in DOMAIN acts : acts[id].status = "active"}
    IN  [total_acts |-> Cardinality(active),
         category_counts |->
             [c \in {acts[id].category : id \in active} |->
                 Cardinality({id \in active : acts[id].category = c})],
         database_version |-> "1.0.0"]

GetActsByCategory(category) ==
    /\ last' = [op |-> "get_acts_by_category", category |-> category,
                acts |-> get_acts_by_category(legal_acts, category)]
    /\ UNCHANGED <<registryVars, version_history, today, diffVars, sideVars>>

SearchActs(search_term) ==
    /\ last' = [op |-> "search_acts", search_term |-> search_term,
                acts |-> search_acts(legal_acts, search_term)]
    /\ UNCHANGED <<registryVars, version_history, today, diffVars, sideVars>>

GetAllActs ==
    /\ last' = [op |-> "get_all_acts", acts |-> get_all_acts(legal_acts)]
    /\ UNCHANGED <<registryVars, version_history, today, diffVars, sideVars>>

GetDatabaseStats ==
    /\ last' = [op |-> "get_database_stats",
                stats |-> get_database_stats(legal_acts)]
    /\ UNCHANGED <<registryVars, version_history, today, diffVars, sideVars>>

\* the act dicts written between the reads: a seed act repealed, a later
\* version of it, an act that is no seed act and that act amended
ReaderPayloads ==
    {[Base EXCEPT !.status = "repealed"],
     [Base EXCEPT !.version = "2025.2", !.sections = S6A20A],
     NewAct,
     [NewAct EXCEPT !.status = "amended"]}

\* the acts the readers and the update service are called for
ReaderActs == {"rti_act_2005", "shops_establishments_act"}

\* the days of the calls: the seed acts are 5 and 0, and 31 and 26 days old
ReaderDays == {"2025-01-15", "2025-02-10"}

NextReaders ==
    \/ \E act_data \in ReaderPayloads : AddOrUpdateAct(act_data)
    \/ \E act_id \in ReaderActs : GetAct(act_id)
    \/ \E i \in 1..Len(CategoryOrder) : GetActsByCategory(CategoryOrder[i])
    \/ \E search_term \in SearchTerms : SearchActs(search_term)
    \/ GetAllActs
    \/ GetDatabaseStats
    \/ \E act_id \in ReaderActs, response \in UpdaterResponses :
           CheckForUpdates(act_id, response, 0, TRUE)
    \/ \E amendment \in GazetteAmendments : ApplyGazetteAmendment(amendment)
    \/ \E d \in ReaderDays : AdvanceDay(d)

SpecReaders == Init /\ [][NextReaders]_vars

-----------------------------------------------------------------------------
(* Properties of the registry *)

\* an act dict that carries every column add_or_update_act binds
Complete(act_data) == ColumnKeys \subseteq DOMAIN act_data

\* the contract of upsert: act_id non-empty, sections non-null, year numeric
ValidPayload(act_data) ==
    /\ Complete(act_data)
    /\ act_data.act_id # ""
    /\ act_data.sections # None
    /\ IsNumeric(act_data.year)

\* the content fields of a row as a dict, the checksum left out
RowContent(row) == [k \in ColumnKeys |-> ActOfRow(row)[k]]

\* C1: when add_or_update_act is called with the act dict of the call just
\* before it, the second call returns False and leaves the rows and the
\* update log as the first call left them.
C1_UpsertIdempotent ==
    [][\A p \in Payloads :
         (/\ last.op = "add_or_update_act" /\ last.act_data = p
          /\ last'.op = "add_or_update_act" /\ last'.act_data = p
          /\ AddOrUpdateAct(p))
         => /\ last'.changed = FALSE
            /\ legal_acts' = legal_acts
            /\ update_log' = update_log]_vars

\* a second call with the dict that wrote version 2025.2 has returned False,
\* and the log holds the one entry of the first call
C1_Witness ==
    /\ last.op = "add_or_update_act"
    /\ last.act_data = [Base EXCEPT !.version = "2025.2", !.sections = S6B]
    /\ last.changed = FALSE
    /\ legal_acts["rti_act_2005"].checksum = _generate_checksum(last.act_data)
    /\ Len(update_log) = 1

\* C2: add_or_update_act with a dict that breaks the contract (empty act_id,
\* null sections or non-numeric year) gives an outcome that is not the
\* boolean of a call that changed nothing, and leaves rows and log unchanged.
C2_ValidatesBeforeSideEffect ==
    [][\A p \in Payloads :
         (/\ last'.op = "add_or_update_act" /\ last'.act_data = p
          /\ AddOrUpdateAct(p)
          /\ Complete(p) /\ ~ValidPayload(p))
         => /\ last'.changed \notin BOOLEAN
            /\ legal_acts' = legal_acts
            /\ update_log' = update_log]_vars

\* C3: add_or_update_act for an act_id that has a row, with a dict whose
\* checksum differs from the stored one, returns True, leaves in the row the
\* content of the dict, and appends exactly one update_log row from the
\* version stored before the call to the version of the dict.
C3_UpdateReplacesAndLogs ==
    [][\A p \in Payloads :
         (/\ last'.op = "add_or_update_act" /\ last'.act_data = p
          /\ AddOrUpdateAct(p)
          /\ Complete(p)
          /\ p.act_id \in DOMAIN legal_acts
          /\ legal_acts[p.act_id].checksum # _generate_checksum(p))
         => /\ last'.changed = TRUE
            /\ RowContent(legal_acts'[p.act_id]) = [k \in ColumnKeys |-> p[k]]
            /\ legal_acts'[p.act_id].checksum = _generate_checksum(p)
            /\ \A id \in DOMAIN legal_acts \ {p.act_id} :
                   legal_acts'[id] = legal_acts[id]
            /\ Len(update_log') = Len(update_log) + 1
            /\ SubSeq(update_log', 1, Len(update_log)) = update_log
            /\ update_log'[Len(update_log')].act_id = p.act_id
            /\ update_log'[Len(update_log')].old_version = legal_acts[p.act_id].version
            /\ update_log'[Len(update_log')].new_version = p.version]_vars

\* an update of the RTI act from 2025.1 to 2025.2 has been written and logged
C3_Witness ==
    /\ last.op = "add_or_update_act"
    /\ last.changed = TRUE
    /\ last.act_data.act_id = "rti_act_2005"
    /\ Len(update_log) >= 1
    /\ update_log[Len(update_log)].old_version = "2025.1"
    /\ update_log[Len(update_log)].new_version = "2025.2"
    /\ legal_acts["rti_act_2005"].version = "2025.2"

\* C4: add_or_update_act for an act_id that has no row inserts the row and
\* appends an update_log row of update_type "new" for that act_id.
C4_InsertLogsNew ==
    [][\A p \in Payloads :
         (/\ last'.op = "add_or_update_act" /\ last'.act_data = p
          /\ AddOrUpdateAct(p)
          /\ Complete(p) /\ p.act_id \notin DOMAIN legal_acts)
         => /\ p.act_id \in DOMAIN legal_acts'
            /\ Len(update_log') = Len(update_log) + 1
            /\ update_log'[Len(update_log')].act_id = p.act_id
            /\ update_log'[Len(update_log')].update_type = "new"]_vars

\* C5 as claimed: get_act called right after add_or_update_act(act) returns
\* an act whose sections and amendments are those of the dict, whatever its
\* status.
C5_RoundTripAnyStatus ==
    [][\A p \in Payloads :
         (/\ last.op = "add_or_update_act" /\ last.act_data = p /\ Complete(p)
          /\ last'.op = "get_act" /\ GetAct(p.act_id))
         => /\ last'.act # None
            /\ last'.act.sections = p.sections
            /\ last'.act.amendments = p.amendments]_vars

\* C5 as amended: get_act called right after add_or_update_act(act) returns
\* an act with the sections and the amendments of the dict when the status
\* of the dict is 'active', and None when it is not.
C5_RoundTripActive ==
    [][\A p \in Payloads :
         (/\ last.op = "add_or_update_act" /\ last.act_data = p /\ Complete(p)
          /\ last'.op = "get_act" /\ GetAct(p.act_id))
         => IF p.status = "active"
            THEN /\ last'.act # None
                 /\ last'.act.sections = p.sections
                 /\ last'.act.amendments = p.amendments
            ELSE last'.act = None]_vars

\* get_act has returned the two sections and the amendment that only the
\* dict with the added section carries
C5_Witness ==
    /\ last.op = "get_act"
    /\ last.act # None
    /\ last.act.sections = S6A20A
    /\ last.act.amendments = <<SeedAmendment>>

\* C6: every stored act has a status among active, repealed and amended and
\* a version of the form <year>.<integer>.
C6_StatusAndVersionWellFormed ==
    \A id \in DOMAIN legal_acts :
        /\ legal_acts[id].status \in {"active", "repealed", "amended"}
        /\ LET parts == Split(legal_acts[id].version)
           IN  Len(parts) = 2 /\ IsNumeric(parts[1]) /\ IsNumeric(parts[2])

\* C7: the checksum stored in a row is the digest of the row's own content
\* fields, the checksum left out.
C7_ChecksumOfRowContent ==
    \A id \in DOMAIN legal_acts :
        legal_acts[id].checksum = _generate_checksum(RowContent(legal_acts[id]))

\* C8: a call of the update service that changes an act (its upsert returned
\* True) creates exactly one version_history row, for that act.
C8_VersionRecordsFollowChanges ==
    [][(/\ last'.op \in {"_apply_gazette_amendment", "_fetch_and_update_act"}
        /\ legal_acts' # legal_acts)
       => /\ Len(version_history') = Len(version_history) + 1
          /\ \E id \in DOMAIN legal_acts' :
                /\ version_history'[Len(version_history')].act_id = id
                /\ version_history'[Len(version_history')].version =
                       legal_acts'[id].version]_vars

-----------------------------------------------------------------------------
(* Properties of the ledger and of the section diff *)

\* C9: get_version_history(act_id) returns exactly the version_history rows
\* of that act, each once and none of another act, by release_date
\* descending, whatever the order in which they were created.
C9_HistoryExactAndDescending ==
    last.op = "get_version_history" =>
        LET res == last.versions
            own == {i \in 1..Len(version_history) :
                        version_history[i].act_id = last.history_of}
        IN  /\ Len(res) = Cardinality(own)
            /\ {res[i].version_id : i \in 1..Len(res)}
                   = {version_history[i].version_id : i \in own}
            /\ \A i \in 1..Len(res) : \E j \in own :
                   /\ res[i].version_id = version_history[j].version_id
                   /\ res[i].version = version_history[j].version
                   /\ res[i].release_date = version_history[j].release_date
            /\ \A i, j \in 1..Len(res) :
                   i < j => DateOrdinal[res[i].release_date]
                                >= DateOrdinal[res[j].release_date]

\* two versions of one act created oldest first, a version of another act
\* between them in the table, and the history read latest first
C9_Witness ==
    /\ last.op = "get_version_history"
    /\ Len(last.versions) = 2
    /\ last.versions[1].release_date = "2025-02-01"
    /\ last.versions[2].release_date = "2025-01-10"
    /\ Len(version_history) = 3
    /\ version_history[1].act_id = last.history_of
    /\ version_history[1].release_date = "2025-01-10"
    /\ version_history[2].act_id # last.history_of
    /\ version_history[3].release_date = "2025-02-01"

\* C10: the differences list holds exactly one entry for each section id on
\* which the two dicts differ and none for any other: added for an id only in
\* new, deleted for an id only in old, modified with both contents for an id
\* in both with different text.  Equal dicts give no entry and similarity
\* 1.0; a new dict that adds exactly one section gives exactly one entry,
\* an added one.
C10_SectionDiff ==
    last.op = "_compare_sections" =>
        /\ \A k \in SectionIds :
              LET at == {i \in 1..Len(differences) : differences[i].section = k}
                  inOld == k \in DOMAIN old_sections
                  inNew == k \in DOMAIN new_sections
              IN  IF inNew /\ ~inOld
                  THEN \E i \in at :
                          /\ at = {i}
                          /\ differences[i] = [type |-> "added", section |-> k,
                                               new_content |-> new_sections[k]]
                  ELSE IF inOld /\ ~inNew
                  THEN \E i \in at :
                          /\ at = {i}
                          /\ differences[i] = [type |-> "deleted", section |-> k,
                                               old_content |-> old_sections[k]]
                  ELSE IF inOld /\ inNew /\ old_sections[k] # new_sections[k]
                  THEN \E i \in at :
                          /\ at = {i}
                          /\ differences[i] = [type |-> "modified", section |-> k,
                                               old_content |-> old_sections[k],
                                               new_content |-> new_sections[k]]
                  ELSE at = {}
        /\ old_sections = new_sections =>
              differences = <<>> /\ similarity[1] = similarity[2]
        /\ \A k \in SectionIds :
              (/\ k \notin DOMAIN old_sections
               /\ DOMAIN new_sections = DOMAIN old_sections \cup {k}
               /\ \A x \in DOMAIN old_sections : new_sections[x] = old_sections[x])
              => Len(differences) = 1 /\ differences[1].type = "added"

\* one section modified from "A" to "B", one added and one deleted
C10_Witness ==
    /\ last.op = "_compare_sections"
    /\ Len(differences) = 3
    /\ \E i \in 1..3 :
          differences[i] = [type |-> "modified", section |-> "Section 6",
                            old_content |-> "A", new_content |-> "B"]
    /\ \E i \in 1..3 : differences[i].type = "added"
    /\ \E i \in 1..3 : differences[i].type = "deleted"

-----------------------------------------------------------------------------
(* Properties of compare_versions *)

\* C11: once the RTI act, whose "Section 6" was "A" in version 2025.1, has
\* been updated to version 2025.2 with "Section 6" as "B" and nothing else,
\* compare_versions(act_id, "2025.1", "2025.2") returns as differences
\* exactly one 'modified' entry for "Section 6" with old_content "A" and
\* new_content "B".
C11_CompareReportsHistoricalDiff ==
    (/\ last.op = "compare_versions"
     /\ last.compared = "rti_act_2005"
     /\ last.old_version = "2025.1" /\ last.new_version = "2025.2"
     /\ Len(update_log) = 1
     /\ update_log[1].old_version = "2025.1"
     /\ update_log[1].new_version = "2025.2"
     /\ RowContent(legal_acts["rti_act_2005"])
            = [Base EXCEPT !.version = "2025.2", !.sections = S6B])
    => /\ "differences" \in DOMAIN last.comparison
       /\ last.comparison.differences
              = <<[type |-> "modified", section |-> "Section 6",
                   old_content |-> "A", new_content |-> "B"]>>

-----------------------------------------------------------------------------
(* Properties of the amendment notifications *)

\* C12: add_amendment_notification for an act, with notification_date today
\* and a number that act has not been notified of today, returns a non-empty
\* notification_id, also when another act holds a notification of that
\* number and day; and get_amendment_notifications(act_id, 90) returns a
\* stored notification of the act exactly when at most 90 days have gone by
\* since its notification_date.
C12_NotificationWindow ==
    /\ [][\A n \in Notifications :
            (/\ last'.op = "add_amendment_notification"
             /\ last'.notification = n
             /\ AddAmendmentNotification(n)
             /\ NotificationKeys \subseteq DOMAIN n
             /\ ~\E i \in 1..Len(amendment_notifications) :
                    /\ amendment_notifications[i].act_id = n.act_id
                    /\ amendment_notifications[i].notification_id
                           = <<"NOT", n.notification_number, today>>)
            => /\ last'.notification_id # <<>>
               /\ \E i \in 1..Len(amendment_notifications') :
                      /\ amendment_notifications'[i].act_id = n.act_id
                      /\ amendment_notifications'[i].notification_id
                             = last'.notification_id]_vars
    /\ [](last.op = "get_amendment_notifications" =>
            \A i \in 1..Len(amendment_notifications) :
                amendment_notifications[i].act_id = last.notified =>
                    ((\E j \in 1..Len(last.notifications) :
                          last.notifications[j].notification_id
                              = amendment_notifications[i].notification_id)
                     <=> DateOrdinal[today]
                             - DateOrdinal[amendment_notifications[i].notification_date]
                                 <= 90))


-----------------------------------------------------------------------------
(* Properties of the update service *)

\* days between the day of the call and the last_updated of the stored row
RowAge(act_id) == DateOrdinal[today] - DateOrdinal[legal_acts[act_id].last_updated]

\* C13 as claimed: check_for_updates on an act that has a row fetches nothing
\* and writes nothing when the row's last_updated is at most 30 days old, and
\* makes exactly one fetch and at most one call of add_or_update_act when it
\* is older.
C13_StalenessOfStoredAct ==
    [][\A act_id \in UpdaterActs, response \in UpdaterResponses,
          latency \in Latencies :
         (/\ last'.op = "check_for_updates" /\ last'.checked = act_id
          /\ last'.db_ok
          /\ CheckForUpdates(act_id, response, latency, TRUE)
          /\ act_id \in DOMAIN legal_acts)
         => IF RowAge(act_id) <= 30
            THEN /\ last'.fetches = <<>> /\ last'.upserts = 0
                 /\ legal_acts' = legal_acts /\ update_log' = update_log
            ELSE /\ Len(last'.fetches) = 1 /\ last'.upserts <= 1
                 /\ Len(update_log') <= Len(update_log) + 1]_vars

\* C13 as amended: check_for_updates on an act that get_act returns fetches
\* nothing and writes nothing when last_updated is at most 30 days old, and
\* makes exactly one fetch, failed or not, and at most one call of
\* add_or_update_act when it is older; on an act that get_act does not return
\* it fetches nothing and writes nothing.
C13_StalenessOfVisibleAct ==
    [][\A act_id \in UpdaterActs, response \in UpdaterResponses,
          latency \in Latencies, db_ok \in BOOLEAN :
         (/\ last'.op = "check_for_updates" /\ last'.checked = act_id
          /\ last'.db_ok = db_ok
          /\ CheckForUpdates(act_id, response, latency, db_ok))
         => IF StoredAct(legal_acts, act_id, db_ok) # None /\ RowAge(act_id) > 30
            THEN /\ Len(last'.fetches) = 1 /\ last'.upserts <= 1
                 /\ Len(update_log') <= Len(update_log) + 1
            ELSE /\ last'.fetches = <<>> /\ last'.upserts = 0
                 /\ legal_acts' = legal_acts /\ update_log' = update_log]_vars

\* check_for_updates has found an act 31 days old, fetched once, got no act
\* and fetched no second time
C13_Witness ==
    /\ last.op = "check_for_updates"
    /\ "needs_update" \in DOMAIN last.update_result
    /\ last.update_result.needs_update
    /\ last.update_result.days_since_update = 31
    /\ Len(last.fetches) = 1
    /\ last.failed = 1
    /\ last.upserts = 0

\* the calls of the updater that fetch
UpdaterOps == {"update_all_acts", "check_for_updates"}

\* the step is the call of the updater that last' records
UpdaterCall ==
    \/ /\ last'.op = "update_all_acts"
       /\ \E responses \in [PrioritySlugs -> UpdaterResponses],
             latency \in Latencies :
              UpdateAllActs(responses, latency, last'.db_ok)
    \/ /\ last'.op = "check_for_updates"
       /\ \E response \in UpdaterResponses, latency \in Latencies :
              CheckForUpdates(last'.checked, response, latency, last'.db_ok)

\* every fetch of the sequence starts request_delay seconds or more after the
\* one before it
Spaced(fetches) ==
    \A i \in 2..Len(fetches) : fetches[i] - fetches[i - 1] >= request_delay

ConfiguredItems ==
    Len(priority_acts) + Len(_get_simulated_gazette_updates) + Len(priority_updates)

\* C15: whatever fetches and storage calls fail, update_all_acts takes every
\* India Code slug, every gazette amendment and every priority update in
\* turn, fetching each slug, and returns the aggregate dict with a summary of
\* each of the three sources.
C15_UpdateAllContinuesOnError ==
    [][UpdaterCall /\ last'.op = "update_all_acts"
         => /\ last'.items = ConfiguredItems
            /\ Len(last'.fetches) = Len(priority_acts)
            /\ DOMAIN last'.update_results =
                   {"total_checked", "updated", "errors", "new_acts",
                    "sources_used", "update_summary"}
            /\ Len(last'.update_results.update_summary) = 3
            /\ last'.update_results.update_summary[2][3]
                   = Len(_get_simulated_gazette_updates)]_vars

\* update_all_acts has gone through a pass in which one fetch gave no act
\* and the storage failed, and has taken every item all the same
C15_Witness ==
    /\ last.op = "update_all_acts"
    /\ last.failed = 1
    /\ ~last.db_ok
    /\ last.items = ConfiguredItems
    /\ Len(last.fetches) = Len(priority_acts)

\* C16: the errors field of the result of update_all_acts is the number of
\* items that failed during the pass.
C16_ErrorsCountFailedItems ==
    last.op = "update_all_acts" => last.update_results.errors = last.failed

\* the keys the claim names in the dict a fetch gives
FetchedKeys ==
    {"act_id", "name", "year", "sections", "amendments", "status", "version"}

\* C17: a fetch that gets no page (an exception or a status other than 200)
\* or a page with no title gives None, and then nothing is written and
\* nothing changes in the registry; a fetch that gives an act gives a dict
\* with act_id, name, a numeric year, sections, amendments, status 'active'
\* and a version.
C17_FetchGivesNoneOrWholeAct ==
    [][\A act_id \in FetchedActs, response \in Responses :
         (/\ last'.op = "_fetch_and_update_act" /\ last'.target = act_id
          /\ FetchAndUpdateAct(act_id, response))
         => LET act_data ==
                    _fetch_act_from_india_code(SlugOf[act_id], response, today)
            IN  IF ~response.page \/ ~response.has_title
                THEN /\ act_data = None
                     /\ ~last'.success
                     /\ legal_acts' = legal_acts
                     /\ update_log' = update_log
                ELSE /\ act_data # None
                     /\ FetchedKeys \subseteq DOMAIN act_data
                     /\ act_data.act_id = act_id
                     /\ act_data.name = response.title
                     /\ IsNumeric(act_data.year)
                     /\ act_data.sections = response.sections
                     /\ act_data.amendments = <<>>
                     /\ act_data.status = "active"
                     /\ Len(Split(act_data.version)) = 2]_vars

\* a page whose title holds no year has been fetched and stored as a new act
\* of the year 2025
C17_Witness ==
    /\ last.op = "_fetch_and_update_act"
    /\ last.target = "shops_establishments_act"
    /\ last.success
    /\ "shops_establishments_act" \in DOMAIN legal_acts
    /\ legal_acts["shops_establishments_act"].year = "2025"
    /\ legal_acts["shops_establishments_act"].name = "Shops and Establishments Act"

\* the entry _apply_gazette_amendment appends for an amendment
AmendmentEntry(amendment) ==
    [date |-> amendment.amendment_date,
     description |-> amendment.description,
     notification |-> amendment.notification_number,
     sections_affected |-> amendment.sections_affected]

\* C18: _apply_gazette_amendment on an act that get_act returns, of version
\* <y>.<n>, appends one entry for the amendment to the act's amendments,
\* stores version <y>.<n+1>, writes through add_or_update_act (one row of the
\* update log, from <y>.<n> to <y>.<n+1>) and returns True; for an act that
\* get_act does not return it returns False and changes nothing.
C18_AmendmentBumpsMinorVersion ==
    [][\A amendment \in GazetteAmendments :
         (/\ last'.op = "_apply_gazette_amendment"
          /\ last'.amendment = amendment
          /\ ApplyGazetteAmendment(amendment))
         => LET act == get_act(legal_acts, amendment.act_id)
                id == amendment.act_id
            IN  IF act = None
                THEN /\ ~last'.applied
                     /\ legal_acts' = legal_acts
                     /\ update_log' = update_log
                ELSE Len(Split(act.version)) = 2 /\ IsNumeric(Split(act.version)[2])
                     => /\ last'.applied
                        /\ get_act(legal_acts', id).amendments
                               = Append(act.amendments, AmendmentEntry(amendment))
                        /\ Split(legal_acts'[id].version)[1] = Split(act.version)[1]
                        /\ Numeral[Split(legal_acts'[id].version)[2]]
                               = Numeral[Split(act.version)[2]] + 1
                        /\ Len(update_log') = Len(update_log) + 1
                        /\ update_log'[Len(update_log')].old_version = act.version
                        /\ update_log'[Len(update_log')].new_version
                               = legal_acts'[id].version]_vars

\* the amendment has been applied to the act stored with version 2025.2,
\* which is now stored with version 2025.3 and one amendment more
C18_Witness ==
    /\ last.op = "_apply_gazette_amendment"
    /\ last.applied
    /\ legal_acts["rti_act_2005"].version = "2025.3"
    /\ update_log # <<>>
    /\ update_log[Len(update_log)].old_version = "2025.2"
    /\ Len(get_act(legal_acts, "rti_act_2005").amendments) = 2

-----------------------------------------------------------------------------
(* Properties of add_or_update_act on connections side by side *)

\* C19: when a call of add_or_update_act commits its update of an act after
\* another call, with another act dict, has committed its own, both having
\* read the same checksum and version of the act, then the row holds the
\* dict of the later call and not that of the earlier, the two rows of the
\* update log carry the same old_version, the one both calls read, and the
\* later row does not start from the version the earlier row ends with.
C19_LostUpdateRace ==
    [][\A c \in Connections :
         (/\ last.op = "add_or_update_act" /\ last.changed
          /\ last.connection # c
          /\ connections[c].pc = "logged"
          /\ connections[c].existing # None
          /\ last.existing = connections[c].existing
          /\ last.act_data.act_id = connections[c].act_data.act_id
          /\ last.act_data # connections[c].act_data
          /\ CommitConnection(c, TRUE))
         => LET n == Len(update_log')
                act_id == connections[c].act_data.act_id
            IN  /\ n >= 2
                /\ legal_acts'[act_id] =
                       RowOf(connections[c].act_data, connections[c].checksum)
                /\ legal_acts'[act_id].checksum # _generate_checksum(last.act_data)
                /\ update_log'[n].old_version = connections[c].existing.version
                /\ update_log'[n - 1].old_version = connections[c].existing.version
                /\ last.act_data.version # last.existing.version
                   => update_log'[n].old_version # update_log'[n - 1].new_version]_vars

\* two calls have updated the act stored with version 2025.1, one to 2025.2
\* and then one to 2025.3: both rows of the log start from 2025.1 and the row
\* holds 2025.3
C19_Witness ==
    /\ Len(update_log) = 2
    /\ update_log[1].act_id = "rti_act_2005"
    /\ update_log[2].act_id = "rti_act_2005"
    /\ update_log[1].old_version = "2025.1"
    /\ update_log[1].new_version = "2025.2"
    /\ update_log[2].old_version = "2025.1"
    /\ update_log[2].new_version = "2025.3"
    /\ legal_acts["rti_act_2005"].version = "2025.3"
    /\ legal_acts["rti_act_2005"].sections = DumpSections(S6A20A)

\* the acts whose row a step changes
UpdatedRows == {act_id \in DOMAIN legal_acts : legal_acts'[act_id] # legal_acts[act_id]}

\* C20: a step that updates a row of legal_acts appends the row of the
\* update log for it, and a step that appends a row to the update log is the
\* commit of a call whose UPDATE the row of the act then holds: it is the
\* step in which the call returns True; a call that fails, after the UPDATE
\* and before the INSERT into update_log or anywhere else, leaves the rows
\* and the update log as they were.
C20_UpdateAndLogTogether ==
    [][/\ UpdatedRows # {}
          => \E act_id \in UpdatedRows :
                 /\ UpdatedRows = {act_id}
                 /\ Len(update_log') = Len(update_log) + 1
                 /\ update_log'[Len(update_log')].act_id = act_id
       /\ update_log' # update_log
          => \E c \in Connections :
                 /\ connections[c].pc = "logged" /\ connections'[c] = Closed
                 /\ update_log' = Append(update_log,
                        LogRow(connections[c].act_data,
                               connections[c].existing.version))
                 /\ legal_acts'[connections[c].act_data.act_id] =
                        RowOf(connections[c].act_data, connections[c].checksum)
       /\ <<legal_acts, update_log>>' # <<legal_acts, update_log>>
          => last'.op = "add_or_update_act" /\ last'.changed
       /\ \A c \in Connections :
              (connections[c].pc # "closed" /\ connections'[c] = Closed
               /\ ~last'.changed)
              => UNCHANGED <<legal_acts, update_log>>]_vars

\* a call has failed after its UPDATE and before its INSERT into the update
\* log: the row is the one it had read and the log is empty
C20_Witness ==
    /\ last.op = "add_or_update_act"
    /\ ~last.changed
    /\ last.at = "updated"
    /\ last.existing # None
    /\ last.existing.checksum # _generate_checksum(last.act_data)
    /\ legal_acts[last.act_data.act_id].checksum = last.existing.checksum
    /\ update_log = <<>>

-----------------------------------------------------------------------------
(* Properties of the registry, the ledger and the update service together *)

\* C21: no step of the registry, of the ledger or of the update service,
\* failed calls and constructions over an existing store included, takes an
\* act_id out of legal_acts, and each act_id has the one row that carries it.
C21_ActsNeverDeleted ==
    [][/\ DOMAIN legal_acts \subseteq DOMAIN legal_acts'
       /\ \A act_id \in DOMAIN legal_acts' : legal_acts'[act_id].act_id = act_id]_vars

\* the registry has been constructed over a store that held an act that is
\* no seed act, and holds it still
C21_Witness ==
    /\ last.op = "LegalActsDatabase"
    /\ "shops_establishments_act" \in DOMAIN last.rows_before
    /\ DOMAIN legal_acts =
           {"rti_act_2005", "constitution_india_1950", "shops_establishments_act"}

\* the table t has grown into u, or is u: every row of t is in u at its
\* place, with every field as it was
Extends(u, t) == Len(u) >= Len(t) /\ SubSeq(u, 1, Len(t)) = t

\* C22: every step leaves the rows of version_history, change_records,
\* amendment_notifications and update_log in place and as they were; the
\* tables only grow.
C22_HistoryAppendOnly ==
    [][/\ Extends(version_history', version_history)
       /\ Extends(change_records', change_records)
       /\ Extends(amendment_notifications', amendment_notifications)
       /\ Extends(update_log', update_log)]_vars

\* each of the four tables holds a row, and create_version has then been
\* called for the version_id that is in the table, with another checksum
C22_Witness ==
    /\ last.op = "create_version"
    /\ last.version_id = <<>>
    /\ "release_date" \in DOMAIN last.version_info
    /\ Len(version_history) = 1
    /\ version_history[1].checksum # last.version_info.checksum
    /\ change_records # <<>>
    /\ amendment_notifications # <<>>
    /\ update_log # <<>>

-----------------------------------------------------------------------------
(* Properties of create_version and compare_versions *)

\* C23: two calls of create_version, one right after the other on the same
\* day, for the same act_id and the same version, both return the version_id
\* made of act_id, version and the day.
C23_SameVersionIdOnSameDay ==
    [][\A act_id \in LedgerActs, version_info \in VersionInfos :
         (/\ last.op = "create_version" /\ last.version_of = act_id
          /\ VersionInfoKeys \subseteq DOMAIN last.version_info
          /\ VersionInfoKeys \subseteq DOMAIN version_info
          /\ last.version_info.version = version_info.version
          /\ last'.op = "create_version" /\ last'.version_of = act_id
          /\ last'.version_info = version_info
          /\ CreateVersion(act_id, version_info))
         => /\ last'.version_id = VersionId(act_id, version_info.version, today)
            /\ last.version_id = last'.version_id]_vars

\* C24: a call of compare_versions that returns a comparison adds one row to
\* version_comparison, with the act_id, the versions, the differences and
\* the similarity_score of the dict it returns, also when the comparison
\* before it was made in the same second.
C24_ComparisonPersisted ==
    [][\A act_id \in {"rti_act_2005", "shops_establishments_act"},
          old_version, new_version \in {"2025.1", "2025.2"} :
         (/\ last'.op = "compare_versions" /\ last'.compared = act_id
          /\ last'.old_version = old_version /\ last'.new_version = new_version
          /\ CompareVersions(act_id, old_version, new_version)
          /\ "error" \notin DOMAIN last'.comparison)
         => /\ Len(version_comparison') = Len(version_comparison) + 1
            /\ LET row == version_comparison'[Len(version_comparison')]
               IN  /\ row.act_id = last'.comparison.act_id
                   /\ row.old_version = last'.comparison.old_version
                   /\ row.new_version = last'.comparison.new_version
                   /\ row.differences = DumpDifferences(last'.comparison.differences)
                   /\ row.similarity_score = last'.comparison.similarity_score]_vars

\* the step is the call of the ledger that last' records
LedgerCall ==
    \/ /\ last'.op = "create_version"
       /\ CreateVersion(last'.version_of, last'.version_info)
    \/ /\ last'.op = "record_change"
       /\ RecordChange(last'.change_record)
    \/ /\ last'.op = "add_amendment_notification"
       /\ AddAmendmentNotification(last'.notification)
    \/ /\ last'.op = "compare_versions"
       /\ CompareVersions(last'.compared, last'.old_version, last'.new_version)

\* C25: add_or_update_act of a dict changes no row but the one of the dict's
\* act_id, adds no act_id but that one, appends at most one row to the update
\* log and leaves version_history, change_records, amendment_notifications
\* and version_comparison as they are; create_version, record_change,
\* add_amendment_notification and compare_versions leave legal_acts and the
\* update log as they are.
C25_FrameOfUpsertAndLedger ==
    [][/\ \A act_data \in SystemPayloads :
            (/\ last'.op = "add_or_update_act" /\ last'.act_data = act_data
             /\ AddOrUpdateAct(act_data))
            => /\ \A act_id \in DOMAIN legal_acts \ {act_data.act_id} :
                      /\ act_id \in DOMAIN legal_acts'
                      /\ legal_acts'[act_id] = legal_acts[act_id]
               /\ DOMAIN legal_acts' \subseteq DOMAIN legal_acts \cup {act_data.act_id}
               /\ Extends(update_log', update_log)
               /\ Len(update_log') <= Len(update_log) + 1
               /\ UNCHANGED <<version_history, change_records,
                              amendment_notifications, version_comparison>>
       /\ LedgerCall => UNCHANGED <<legal_acts, update_log>>]_vars

\* add_or_update_act has updated one of three stored acts while each table
\* of the ledger held a row
C25_Witness ==
    /\ last.op = "add_or_update_act"
    /\ last.changed
    /\ Cardinality(DOMAIN legal_acts) = 3
    /\ update_log # <<>>
    /\ update_log[Len(update_log)].act_id = last.act_data.act_id
    /\ version_history # <<>>
    /\ change_records # <<>>
    /\ amendment_notifications # <<>>
    /\ version_comparison # <<>>

\* C26: compare_versions resolves both versions from the current row: for an
\* act that get_act returns, and whatever the two version strings, the dict
\* returned has an empty differences list and similarity_score 1.0 (equal
\* lengths); the error "One or both versions not found" is returned only when
\* get_act returns nothing.
C26_CompareResolvesCurrentRow ==
    last.op = "compare_versions"
    => /\ get_act(legal_acts, last.compared) # None
          => /\ "differences" \in DOMAIN last.comparison
             /\ last.comparison.differences = <<>>
             /\ last.comparison.similarity_score[1]
                    = last.comparison.similarity_score[2]
       /\ last.comparison = [error |-> "One or both versions not found"]
          => get_act(legal_acts, last.compared) = None


\* C27: reading an act with get_act and upserting the dict as it was returned
\* is a no-op: the call returns False and the update log gets no entry.
C27_ReadThenWriteIsNoOp ==
    [][last'.op = "read_then_write"
       => /\ last'.changed = FALSE
          /\ update_log' = update_log
          /\ legal_acts' = legal_acts]_vars

\* C28: when update_all_acts runs twice with the same gazette amendments,
\* the same priority list and the same fetch outcomes, the second pass
\* changes no row of legal_acts, appends nothing to the update log and
\* reports updated = 0.
C28_SecondPassChangesNothing ==
    [][(/\ last.op = "pass" /\ last'.op = "pass"
        /\ last'.responses = last.responses
        /\ \E latency \in Latencies : Pass(last'.responses, latency))
       => /\ legal_acts' = legal_acts
          /\ update_log' = update_log
          /\ last'.update_results.updated = 0]_vars

\* the seed acts and their act_ids
SeedActs == {_get_initial_acts_data[i] : i \in 1..Len(_get_initial_acts_data)}
SeedIds == {seed.act_id : seed \in SeedActs}

\* the seed acts whose stored row is not the row of the seed act
StaleSeeds ==
    {seed \in SeedActs :
        /\ seed.act_id \in DOMAIN legal_acts
        /\ legal_acts[seed.act_id] # RowOf(seed, _generate_checksum(seed))}

\* C29: a construction of the registry over an existing store upserts the
\* seed acts again: afterwards every seed act has the row of its seed dict,
\* for each seed act whose stored row differed an 'update' row from the
\* stored version to the seed version is appended to the update log (the
\* version may go backward), and the acts that are no seed acts are as they
\* were.
C29_ReseedOnConstruction ==
    [][(last'.op = "LegalActsDatabase" /\ Restart)
       => /\ \A seed \in SeedActs :
                 legal_acts'[seed.act_id] = RowOf(seed, _generate_checksum(seed))
          /\ Extends(update_log', update_log)
          /\ Len(update_log') = Len(update_log) + Cardinality(StaleSeeds)
          /\ \A seed \in StaleSeeds :
                 \E i \in (Len(update_log) + 1)..Len(update_log') :
                     update_log'[i] =
                         [act_id |-> seed.act_id, update_type |-> "update",
                          old_version |-> legal_acts[seed.act_id].version,
                          new_version |-> seed.version,
                          update_source |-> "system_update"]
          /\ \A act_id \in DOMAIN legal_acts \ SeedIds :
                 legal_acts'[act_id] = legal_acts[act_id]]_vars

\* the registry has been constructed over a store in which the RTI act was at
\* version 2025.2 and an act that is no seed act was stored: the RTI act is
\* back at 2025.1, the update log says so, and the other act is as it was
C29_Witness ==
    /\ last.op = "LegalActsDatabase"
    /\ last.rows_before["rti_act_2005"].version = "2025.2"
    /\ legal_acts["rti_act_2005"].version = "2025.1"
    /\ update_log # <<>>
    /\ update_log[Len(update_log)].old_version = "2025.2"
    /\ update_log[Len(update_log)].new_version = "2025.1"
    /\ "shops_establishments_act" \in DOMAIN last.rows_before
    /\ legal_acts["shops_establishments_act"]
           = last.rows_before["shops_establishments_act"]

\* the acts that are stored with a status that is not 'active'
Inactive == {act_id \in DOMAIN legal_acts : legal_acts[act_id].status # "active"}

\* the act_ids of the dicts of a list
IdsOf(acts) == {acts[i].act_id : i \in 1..Len(acts)}

\* no reader returns an act that is not active, and the count of the active
\* acts leaves them out
HiddenFromReaders ==
    /\ \A act_id \in Inactive : get_act(legal_acts, act_id) = None
    /\ \A i \in 1..Len(CategoryOrder) :
           IdsOf(get_acts_by_category(legal_acts, CategoryOrder[i])) \cap Inactive = {}
    /\ \A search_term \in SearchTerms :
           IdsOf(search_acts(legal_acts, search_term)) \cap Inactive = {}
    /\ IdsOf(get_all_acts(legal_acts)) \cap Inactive = {}
    /\ get_database_stats(legal_acts).total_acts
           = Cardinality(DOMAIN legal_acts \ Inactive)

\* C30: an act whose stored status is not 'active' is returned by none of
\* get_act, get_acts_by_category, search_acts and get_all_acts and is not
\* counted in total_acts; check_for_updates and _apply_gazette_amendment
\* take it as not found and write nothing; its row is there, and
\* add_or_update_act for its act_id inserts no row: it updates that row and
\* logs the old_version of it when the checksum differs, and writes nothing
\* when it does not.
C30_OnlyActiveActsVisible ==
    /\ []HiddenFromReaders
    /\ [][\A act_id \in Inactive :
             /\ (last'.op = "get_act" /\ last'.act_id = act_id /\ GetAct(act_id))
                => last'.act = None
             /\ \A response \in UpdaterResponses :
                    (/\ last'.op = "check_for_updates" /\ last'.checked = act_id
                     /\ CheckForUpdates(act_id, response, 0, TRUE))
                    => /\ "error" \in DOMAIN last'.update_result
                       /\ last'.fetches = <<>> /\ last'.upserts = 0
                       /\ UNCHANGED registryVars
             /\ \A amendment \in GazetteAmendments :
                    (/\ last'.op = "_apply_gazette_amendment"
                     /\ last'.amendment = amendment
                     /\ amendment.act_id = act_id
                     /\ ApplyGazetteAmendment(amendment))
                    => /\ ~last'.applied
                       /\ UNCHANGED registryVars
             /\ \A act_data \in ReaderPayloads :
                    (/\ last'.op = "add_or_update_act"
                     /\ last'.act_data = act_data
                     /\ act_data.act_id = act_id
                     /\ AddOrUpdateAct(act_data))
                    => LET checksum == _generate_checksum(act_data)
                       IN  /\ DOMAIN legal_acts' = DOMAIN legal_acts
                           /\ last'.changed
                                  <=> legal_acts[act_id].checksum # checksum
                           /\ IF last'.changed
                              THEN /\ legal_acts' =
                                          [legal_acts EXCEPT ![act_id] =
                                              RowOf(act_data, checksum)]
                                   /\ update_log' =
                                          Append(update_log,
                                              LogRow(act_data,
                                                     legal_acts[act_id].version))
                              ELSE UNCHANGED registryVars]_vars

\* the RTI act was repealed, which the update log has as 2025.1 -> 2025.1, and
\* the upsert of its version 2025.2 has then updated the row that no reader
\* returned, logging the old version of that row
C30_Witness ==
    /\ last.op = "add_or_update_act"
    /\ last.changed
    /\ last.act_data = [Base EXCEPT !.version = "2025.2", !.sections = S6A20A]
    /\ update_log = <<LogRow([Base EXCEPT !.status = "repealed"], "2025.1"),
                      LogRow(last.act_data, "2025.1")>>
    /\ legal_acts["rti_act_2005"] = RowOf(last.act_data, _generate_checksum(last.act_data))
=============================================================================
